---- MODULE Spec2Model ----
(***************************************************************************)
(* The COCO box-recall metric of keras_cv (keras_cv/metrics/coco/recall.py, *)
(* class _BoxRecall) as a state machine.                                   *)
(*                                                                         *)
(* The metric owns two int32 counters, true_positives[t][k] and            *)
(* ground_truth_boxes[k].  A caller issues one call at a time (call, pc =  *)
(* "called"), the handler runs to completion in one step (pc = "done",     *)
(* ret holds what the call returned or raised) and the call returns        *)
(* (pc = "idle").                                                          *)
(*                                                                         *)
(* Boxes are integer corner boxes <<x1, y1, x2, y2>> and the metric is     *)
(* constructed with bounding_box_format = "xyxy", so that convert_format   *)
(* (source = target) keeps every coordinate.  IoU thresholds are percent.  *)
(* Floating-point values are exact rationals <<numerator, denominator>>.   *)
(*                                                                         *)
(* Further specifications share the variables and the call protocol:       *)
(* SpecConstruct, the constructor of the metric; SpecMatch, the matching   *)
(* of detections to ground truths by IoU; SpecAnchors, the                 *)
(* AnchorGenerator layer (keras_cv/layers/object_detection/                *)
(* scale_based_anchor_generator.py), whose generators, one per level, are  *)
(* the variable anchor_generators; SpecCodec, the box-delta codec          *)
(* (keras_cv/bounding_box/delta_encoding.py); SpecDelta, the metric        *)
(* MeanBoxCountDelta (keras_cv/metrics/object_detection/                   *)
(* mean_box_count_delta.py) with its variables delta_sum and samples; and  *)
(* SpecThreads, in which several threads call one _BoxRecall instance and  *)
(* the variable threads holds the position of each in its call.            *)
(***************************************************************************)
EXTENDS Integers, Sequences, FiniteSets

VARIABLES cfg, true_positives, ground_truth_boxes, anchor_generators,
          delta_sum, samples, threads, pc, call, ret

vars == <<cfg, true_positives, ground_truth_boxes, anchor_generators,
          delta_sum, samples, threads, pc, call, ret>>

(***************************************************************************)
(* Bounds of the model.                                                    *)
(***************************************************************************)
\* largest number of ground-truth boxes of the requested classes that the
\* caller passes between two resets
MaxCount == 2
\* largest number of images in one batch
MaxImages == 2
\* largest number of entries of y_true, and of y_pred, in one batch
MaxBoxes == 2

(***************************************************************************)
(* Generic helpers.                                                        *)
(***************************************************************************)
RECURSIVE SumSeq(_)
SumSeq(s) == IF s = <<>> THEN 0 ELSE s[1] + SumSeq(Tail(s))

RECURSIVE SelectSeqIdx(_, _, _)
\* the subsequence of s at the indices of the set keep, in order, from index i on
SelectSeqIdx(s, keep, i) ==
    IF i > Len(s) THEN <<>>
    ELSE IF i \in keep THEN <<s[i]>> \o SelectSeqIdx(s, keep, i + 1)
    ELSE SelectSeqIdx(s, keep, i + 1)

RECURSIVE GCD(_, _)
GCD(a, b) == IF b = 0 THEN a ELSE GCD(b, a % b)

\* the rational n/d in lowest terms; a zero denominator is NaN, <<0, 0>>
Rat(n, d) ==
    IF d = 0 THEN <<0, 0>>
    ELSE LET g == GCD(n, d) IN IF g = 0 THEN <<0, 1>> ELSE <<n \div g, d \div g>>

NaN == <<0, 0>>

RAdd(a, b) ==
    IF a = NaN \/ b = NaN THEN NaN
    ELSE Rat(a[1] * b[2] + b[1] * a[2], a[2] * b[2])

\* a / n for an integer n
RDivInt(a, n) == IF a = NaN \/ n = 0 THEN NaN ELSE Rat(a[1], a[2] * n)

RECURSIVE RSumSeq(_)
RSumSeq(s) == IF s = <<>> THEN <<0, 1>> ELSE RAdd(s[1], RSumSeq(Tail(s)))

(***************************************************************************)
(* Inputs: boxes, entries, images, batches.                                *)
(***************************************************************************)
\* a 2x2 box, its left half (IoU 1/2 with the first) and the box of zero area
\* of a padding entry
BoxA == <<0, 0, 2, 2>>
BoxH == <<0, 0, 1, 2>>
BoxZ == <<0, 0, 0, 0>>

\* class -1 marks a padding entry of a dense batch
PaddingClass == 0 - 1

\* the (box, class) pairs of the inputs: two boxes of class 1, one of class 2
\* and the padding entry
BoxClasses == {<<BoxA, 1>>, <<BoxH, 1>>, <<BoxA, 2>>, <<BoxZ, PaddingClass>>}

\* the (box, class) pairs of the predictions that are not padding
PredBoxClasses == BoxClasses \ {<<BoxZ, PaddingClass>>}

\* the entries of y_true: a box and its class
TrueEntries == {[box |-> bc[1], cls |-> bc[2]] : bc \in BoxClasses}

\* the list of n padding predictions: y_pred of an image without a valid box
PaddingPredList(n) ==
    [i \in 1..n |-> [box |-> BoxA, cls |-> PaddingClass, conf |-> i]]

\* the lists of n predictions: a box, its class and its confidence; the
\* confidences of one image are the distinct values 1..n, listed in ascending
\* or in descending order
PredLists(n) ==
    {[i \in 1..n |-> [box |-> bcs[i][1], cls |-> bcs[i][2],
                      conf |-> IF asc THEN i ELSE n + 1 - i]] :
        bcs \in [1..n -> PredBoxClasses], asc \in IF n > 1 THEN BOOLEAN ELSE {TRUE}}

\* the images with nt ground-truth entries and np predictions
ImagesOfSize(nt, np) ==
    {[true |-> t, pred |-> p] : t \in [1..nt -> TrueEntries], p \in PredLists(np)}

\* the images with nt ground-truth entries and np padding predictions
ImagesWithoutPredictions(nt, np) ==
    {[true |-> t, pred |-> PaddingPredList(np)] : t \in [1..nt -> TrueEntries]}

\* the dense batches of b images, each with nt ground-truth entries and np
\* predictions (the shorter lists of a ragged batch are padded with entries of
\* the padding class); y_pred holds boxes of the classes 1 and 2, or no valid
\* box at all
DenseBatches(b, nt, np) ==
    [1..b -> ImagesOfSize(nt, np)] \cup [1..b -> ImagesWithoutPredictions(nt, np)]

\* the batches of at most MaxImages images whose y_true and y_pred each hold
\* at most MaxBoxes entries in all
Batches ==
    UNION {DenseBatches(s[1], s[2], s[3]) :
              s \in {t \in (0..MaxImages) \X (0..MaxBoxes) \X (0..MaxBoxes) :
                        t[1] * t[2] <= MaxBoxes /\ t[1] * t[3] <= MaxBoxes}}

(***************************************************************************)
(* The helpers of keras_cv.metrics.coco.utils and keras_cv.bounding_box    *)
(* that update_state calls.                                                *)
(***************************************************************************)
Min(a, b) == IF a < b THEN a ELSE b
Max(a, b) == IF a > b THEN a ELSE b

\* the area of a corner box
bounding_box_area(b) == (b[3] - b[1]) * (b[4] - b[2])

\* utils.filter_boxes_by_area_range: the entries whose area is in [lo, hi)
filter_boxes_by_area_range(entries, lo, hi) ==
    SelectSeq(entries,
              LAMBDA e : bounding_box_area(e.box) >= lo /\ bounding_box_area(e.box) < hi)

\* utils.filter_boxes on the class axis: the entries of class value, in order
filter_boxes(entries, value) == SelectSeq(entries, LAMBDA e : e.cls = value)

\* utils.slice: the first n entries
slice(entries, n) == SubSeq(entries, 1, Min(n, Len(entries)))

RECURSIVE order_by_confidence(_)
\* utils.sort_bounding_boxes / utils.order_by_confidence: the predictions of
\* one image in descending order of confidence
order_by_confidence(preds) ==
    IF preds = <<>> THEN <<>>
    ELSE LET best == CHOOSE i \in DOMAIN preds :
                         \A j \in DOMAIN preds :
                             \/ preds[j].conf < preds[i].conf
                             \/ (preds[j].conf = preds[i].conf /\ i <= j)
         IN  <<preds[best]>>
                 \o order_by_confidence(
                        SelectSeqIdx(preds, DOMAIN preds \ {best}, 1))

\* intersection and union area of two boxes
intersect_area(a, b) ==
    Max(0, Min(a[3], b[3]) - Max(a[1], b[1]))
        * Max(0, Min(a[4], b[4]) - Max(a[2], b[2]))

union_area(a, b) == bounding_box_area(a) + bounding_box_area(b) - intersect_area(a, b)

\* iou_lib.compute_iou: ious[g][d] is the IoU of ground truth g and detection
\* d, <<intersection, union>>; a pair with an empty union has IoU 0
compute_iou(gt_boxes, det_boxes) ==
    [g \in DOMAIN gt_boxes |->
        [d \in DOMAIN det_boxes |->
            IF union_area(gt_boxes[g], det_boxes[d]) <= 0 THEN <<0, 1>>
            ELSE <<intersect_area(gt_boxes[g], det_boxes[d]),
                   union_area(gt_boxes[g], det_boxes[d])>>]]

\* IoU a is at least IoU b; IoU a is at least a threshold in percent
IouGeq(a, b) == a[1] * b[2] >= b[1] * a[2]
IouAtLeast(a, threshold) == a[1] * 100 >= threshold * a[2]

RECURSIVE match_from_reusing_rows(_, _, _, _, _, _)
\* match_from that leaves a matched row free for the later detections
match_from_reusing_rows(ious, threshold, num_gt, num_det, d, matched) ==
    IF d > num_det THEN <<>>
    ELSE LET free == 1..num_gt
             best == IF free = {} THEN 0 - 1
                     ELSE CHOOSE g \in free :
                              \A h \in free :
                                  /\ IouGeq(ious[g][d], ious[h][d])
                                  /\ IouGeq(ious[h][d], ious[g][d]) => g <= h
             hit  == best # 0 - 1 /\ IouAtLeast(ious[best][d], threshold)
         IN  <<IF hit THEN best ELSE 0 - 1>>
                 \o match_from_reusing_rows(ious, threshold, num_gt, num_det, d + 1,
                                            matched)

RECURSIVE match_from_first_qualifying(_, _, _, _, _, _)
\* match_from that takes the first free row whose IoU reaches the threshold
match_from_first_qualifying(ious, threshold, num_gt, num_det, d, matched) ==
    IF d > num_det THEN <<>>
    ELSE LET ok   == {g \in (1..num_gt) \ matched : IouAtLeast(ious[g][d], threshold)}
             best == IF ok = {} THEN 0 - 1
                     ELSE CHOOSE g \in ok : \A h \in ok : g <= h
         IN  <<best>>
                 \o match_from_first_qualifying(
                        ious, threshold, num_gt, num_det, d + 1,
                        IF best = 0 - 1 THEN matched ELSE matched \cup {best})

RECURSIVE match_from_last_qualifying(_, _, _, _, _, _)
\* match_from that takes the last free row whose IoU reaches the threshold
match_from_last_qualifying(ious, threshold, num_gt, num_det, d, matched) ==
    IF d > num_det THEN <<>>
    ELSE LET ok   == {g \in (1..num_gt) \ matched : IouAtLeast(ious[g][d], threshold)}
             best == IF ok = {} THEN 0 - 1
                     ELSE CHOOSE g \in ok : \A h \in ok : g >= h
         IN  <<best>>
                 \o match_from_last_qualifying(
                        ious, threshold, num_gt, num_det, d + 1,
                        IF best = 0 - 1 THEN matched ELSE matched \cup {best})

RECURSIVE match_from(_, _, _, _, _, _)
\* utils.match_boxes from detection d on, the rows of matched being taken: each
\* detection takes the free row of largest IoU (the first of equal ones) when
\* that IoU reaches the threshold, and -1 otherwise
match_from(ious, threshold, num_gt, num_det, d, matched) ==
    IF d > num_det THEN <<>>
    ELSE LET free == (1..num_gt) \ matched
             best == IF free = {} THEN 0 - 1
                     ELSE CHOOSE g \in free :
                              \A h \in free :
                                  /\ IouGeq(ious[g][d], ious[h][d])
                                  /\ IouGeq(ious[h][d], ious[g][d]) => g <= h
             hit  == best # 0 - 1 /\ IouAtLeast(ious[best][d], threshold)
         IN  IF hit
             THEN <<best>> \o match_from(ious, threshold, num_gt, num_det, d + 1,
                                         matched \cup {best})
             ELSE <<0 - 1>> \o match_from(ious, threshold, num_gt, num_det, d + 1,
                                          matched)

\* utils.match_boxes(ious, threshold): for each detection column, in order,
\* the index of the ground-truth row it is matched to, or -1
match_boxes(ious, threshold, num_gt, num_det) ==
    match_from(ious, threshold, num_gt, num_det, 1, {})

(***************************************************************************)
(* _BoxRecall: the constructor's parameters.                               *)
(***************************************************************************)
\* area_range = None
None == <<>>

Config(ids, thresholds, md, area) ==
    [class_ids |-> ids, iou_thresholds |-> thresholds, max_detections |-> md,
     area_range |-> area]

\* the configurations the metric is constructed with: class_ids,
\* iou_thresholds (percent), max_detections and area_range
Configs ==
    {Config(<<1>>, <<50>>, 1, None),
     Config(<<1, 2>>, <<50, 75>>, 2, None),
     Config(<<1, 2>>, <<50>>, 2, <<3, 5>>)}

num_thresholds(c) == Len(c.iou_thresholds)
num_categories(c) == Len(c.class_ids)

\* tf.zeros_like(self.true_positives), tf.zeros_like(self.ground_truth_boxes)
zeros_true_positives(c) == [t \in 1..num_thresholds(c) |-> [k \in 1..num_categories(c) |-> 0]]
zeros_ground_truth_boxes(c) == [k \in 1..num_categories(c) |-> 0]

(***************************************************************************)
(* _BoxRecall.update_state: the body of the loops over images, categories  *)
(* and thresholds, for a metric of configuration c.                        *)
(***************************************************************************)
BoxesOf(entries) == [i \in DOMAIN entries |-> entries[i].box]

\* y_true_for_image with the area-range filter left out on the ground truth
y_true_for_image_unfiltered(c, image) == image.true

\* y_true_for_image after the optional area-range filter
y_true_for_image(c, image) ==
    IF c.area_range # None
    THEN filter_boxes_by_area_range(image.true, c.area_range[1], c.area_range[2])
    ELSE image.true

\* y_pred_for_image: ordered by confidence, then the optional area-range filter
y_pred_for_image(c, image) ==
    IF c.area_range # None
    THEN filter_boxes_by_area_range(order_by_confidence(image.pred),
                                    c.area_range[1], c.area_range[2])
    ELSE order_by_confidence(image.pred)

\* detections without the cut to max_detections
detections_unsliced(c, image, k) ==
    filter_boxes(y_pred_for_image(c, image), c.class_ids[k])

\* detections without the class filter on the predictions
detections_of_any_class(c, image, k) ==
    IF c.max_detections < Len(y_pred_for_image(c, image))
    THEN slice(y_pred_for_image(c, image), c.max_detections)
    ELSE y_pred_for_image(c, image)

\* detections: the predictions of the category, cut to max_detections
detections(c, image, k) ==
    LET category_filtered_y_pred == filter_boxes(y_pred_for_image(c, image), c.class_ids[k])
    IN  IF c.max_detections < Len(category_filtered_y_pred)
        THEN slice(category_filtered_y_pred, c.max_detections)
        ELSE category_filtered_y_pred

\* ground_truths: the ground-truth entries of the category
ground_truths(c, image, k) == filter_boxes(y_true_for_image(c, image), c.class_ids[k])

\* pred_matches with the ground truths matched at the first threshold still
\* taken at the later thresholds
pred_matches_consuming(c, image, k, t) ==
    LET gts  == filter_boxes(y_true_for_image(c, image), c.class_ids[k])
        dets == filter_boxes(y_pred_for_image(c, image), c.class_ids[k])
        ious == compute_iou(BoxesOf(gts), BoxesOf(slice(dets, c.max_detections)))
        nd   == Min(Len(dets), c.max_detections)
        first == match_boxes(ious, c.iou_thresholds[1], Len(gts), nd)
    IN  match_from(ious, c.iou_thresholds[t], Len(gts), nd, 1,
                   IF t = 1 THEN {}
                   ELSE {first[d] : d \in DOMAIN first} \ {0 - 1})

\* pred_matches of one image, category and threshold
pred_matches(c, image, k, t) ==
    LET gts  == ground_truths(c, image, k)
        dets == detections(c, image, k)
    IN  match_boxes(compute_iou(BoxesOf(gts), BoxesOf(dets)), c.iou_thresholds[t],
                    Len(gts), Len(dets))

\* true_positives_sum as the sum of pred_matches itself
true_positives_sum_of_indices(c, image, k, t) == SumSeq(pred_matches(c, image, k, t))

\* true_positives_sum: the number of matched detections
true_positives_sum(c, image, k, t) ==
    LET matches == pred_matches(c, image, k, t)
    IN  SumSeq([d \in DOMAIN matches |-> IF matches[d] # 0 - 1 THEN 1 ELSE 0])

\* ground_truth_boxes_add that counts an image with ground truth of the
\* category once, however many boxes it holds
ground_truth_boxes_add_per_image(c, image, k) ==
    IF Len(ground_truths(c, image, k)) > 0 THEN 1 ELSE 0

\* what one image adds to ground_truth_boxes_update[k]
ground_truth_boxes_add(c, image, k) == Len(ground_truths(c, image, k))

\* true_positives_update with the scatter overwriting the cell instead of
\* adding to it: the cell holds what the last image contributes
true_positives_update_overwriting(c, batch) ==
    [t \in 1..num_thresholds(c) |->
        [k \in 1..num_categories(c) |->
            IF batch = <<>> THEN 0
            ELSE true_positives_sum(c, batch[Len(batch)], k, t)]]

\* true_positives_update after the loop over the images of the batch
\* (num_images is the leading dimension of the batch)
true_positives_update(c, batch) ==
    [t \in 1..num_thresholds(c) |->
        [k \in 1..num_categories(c) |->
            SumSeq([img \in DOMAIN batch |-> true_positives_sum(c, batch[img], k, t)])]]

\* ground_truth_boxes_update with the addition made inside the loop over the
\* thresholds
ground_truth_boxes_update_per_threshold(c, batch) ==
    [k \in 1..num_categories(c) |->
        num_thresholds(c)
            * SumSeq([img \in DOMAIN batch |-> ground_truth_boxes_add(c, batch[img], k)])]

\* ground_truth_boxes_update after the loop over the images of the batch
ground_truth_boxes_update(c, batch) ==
    [k \in 1..num_categories(c) |->
        SumSeq([img \in DOMAIN batch |-> ground_truth_boxes_add(c, batch[img], k)])]

\* the rank check on y_true alone
is_batched_y_true_only(cl) == cl.true_rank = 3

\* the rank check of update_state: both 'boxes' tensors are of rank 3
is_batched(cl) == cl.true_rank = 3 /\ cl.pred_rank = 3

\* the attributes of tf.TensorShape that the error message may read
TensorShapeAttributes == {"rank", "ndims", "dims"}

\* what the raise statement of the rank check raises: building the message
\* reads the attribute `ranks` of both shapes
rank_check_error ==
    IF "ranks" \in TensorShapeAttributes THEN "ValueError" ELSE "AttributeError"

(***************************************************************************)
(* _BoxRecall.result as a function of the counters.                        *)
(***************************************************************************)
\* every category counted as present
n_present_categories_all(gtb) == Len(gtb)

n_present_categories(gtb) == Cardinality({k \in DOMAIN gtb : gtb[k] # 0})

\* tf.math.divide_no_nan
divide_no_nan(x, y) == IF y = 0 THEN <<0, 1>> ELSE Rat(x, y)

recalls_per_threshold(tp, gtb, t) ==
    RDivInt(RSumSeq([k \in DOMAIN gtb |-> divide_no_nan(tp[t][k], gtb[k])]),
            n_present_categories(gtb))

reduce_mean(s) == RDivInt(RSumSeq(s), Len(s))

\* result without the early return
result_value_unguarded(tp, gtb) ==
    reduce_mean([t \in DOMAIN tp |-> recalls_per_threshold(tp, gtb, t)])

result_value(tp, gtb) ==
    IF n_present_categories(gtb) = 0 THEN <<0, 1>>
    ELSE reduce_mean([t \in DOMAIN tp |-> recalls_per_threshold(tp, gtb, t)])

(***************************************************************************)
(* The state machine.                                                      *)
(***************************************************************************)
NoCall == [op |-> "none", true_rank |-> 3, pred_rank |-> 3, batch |-> <<>>]
NoRet == [kind |-> "none", error |-> "", value |-> <<0, 1>>]

\* no AnchorGenerator has been constructed
NoAnchorGenerators == [built |-> FALSE, keys |-> <<>>, items |-> <<>>]

\* no MeanBoxCountDelta has been constructed: the value of delta_sum and of
\* samples
NoMeanBoxCountDelta == <<>>

\* no update_state is running step by step
NoThreads == <<>>

\* the state after _BoxRecall.__init__
Init ==
    /\ cfg \in Configs
    /\ anchor_generators = NoAnchorGenerators
    /\ delta_sum = NoMeanBoxCountDelta
    /\ samples = NoMeanBoxCountDelta
    /\ threads = NoThreads
    /\ true_positives = zeros_true_positives(cfg)
    /\ ground_truth_boxes = zeros_ground_truth_boxes(cfg)
    /\ pc = "idle"
    /\ call = NoCall
    /\ ret = NoRet

\* the caller calls update_state(y_true, y_pred) with a batch
CallUpdate ==
    /\ pc = "idle"
    /\ \E b \in Batches :
        /\ SumSeq(ground_truth_boxes) + SumSeq(ground_truth_boxes_update(cfg, b))
               <= MaxCount
        /\ call' = [op |-> "update", true_rank |-> 3, pred_rank |-> 3, batch |-> b]
    /\ pc' = "called"
    /\ UNCHANGED <<delta_sum, samples, threads, anchor_generators, cfg, true_positives, ground_truth_boxes, ret>>

\* the caller calls update_state with the boxes of a single image, unbatched
\* (of rank 2) on one side or on both
CallUpdateUnbatched ==
    /\ pc = "idle"
    /\ \E rt, rp \in {2, 3}, b \in UNION {DenseBatches(1, nt, np) : nt \in 0..1, np \in 0..1} :
        /\ ~(rt = 3 /\ rp = 3)
        /\ call' = [op |-> "update", true_rank |-> rt, pred_rank |-> rp, batch |-> b]
    /\ pc' = "called"
    /\ UNCHANGED <<delta_sum, samples, threads, anchor_generators, cfg, true_positives, ground_truth_boxes, ret>>

CallReset ==
    /\ pc = "idle"
    /\ call' = [NoCall EXCEPT !.op = "reset"]
    /\ pc' = "called"
    /\ UNCHANGED <<delta_sum, samples, threads, anchor_generators, cfg, true_positives, ground_truth_boxes, ret>>

CallResult ==
    /\ pc = "idle"
    /\ call' = [NoCall EXCEPT !.op = "result"]
    /\ pc' = "called"
    /\ UNCHANGED <<delta_sum, samples, threads, anchor_generators, cfg, true_positives, ground_truth_boxes, ret>>

\* _BoxRecall.update_state
update_state ==
    /\ pc = "called"
    /\ call.op = "update"
    /\ IF ~is_batched(call)
       THEN /\ ret' = [NoRet EXCEPT !.kind = "raise", !.error = rank_check_error]
            /\ UNCHANGED <<true_positives, ground_truth_boxes>>
       ELSE /\ true_positives' =
                [t \in DOMAIN true_positives |->
                    [k \in DOMAIN true_positives[t] |->
                        true_positives[t][k] + true_positives_update(cfg, call.batch)[t][k]]]
            /\ ground_truth_boxes' =
                [k \in DOMAIN ground_truth_boxes |->
                    ground_truth_boxes[k] + ground_truth_boxes_update(cfg, call.batch)[k]]
            /\ ret' = [NoRet EXCEPT !.kind = "ok"]
    /\ pc' = "done"
    /\ UNCHANGED <<delta_sum, samples, threads, anchor_generators, cfg, call>>

\* reset_state that leaves ground_truth_boxes as it is
reset_state_true_positives_only ==
    /\ pc = "called"
    /\ call.op = "reset"
    /\ true_positives' = [t \in DOMAIN true_positives |->
                              [k \in DOMAIN true_positives[t] |-> 0]]
    /\ ret' = [kind |-> "ok", error |-> "", value |-> <<0, 1>>]
    /\ pc' = "done"
    /\ UNCHANGED <<delta_sum, samples, threads, anchor_generators, cfg, call, ground_truth_boxes>>

\* _BoxRecall.reset_state
reset_state ==
    /\ pc = "called"
    /\ call.op = "reset"
    /\ true_positives' = zeros_true_positives(cfg)
    /\ ground_truth_boxes' = zeros_ground_truth_boxes(cfg)
    /\ ret' = [NoRet EXCEPT !.kind = "ok"]
    /\ pc' = "done"
    /\ UNCHANGED <<delta_sum, samples, threads, anchor_generators, cfg, call>>

\* _BoxRecall.result
result ==
    /\ pc = "called"
    /\ call.op = "result"
    /\ ret' = [NoRet EXCEPT !.kind = "value",
                            !.value = result_value(true_positives, ground_truth_boxes)]
    /\ pc' = "done"
    /\ UNCHANGED <<delta_sum, samples, threads, anchor_generators, cfg, true_positives, ground_truth_boxes, call>>

\* the call returns to the caller
Return ==
    /\ pc = "done"
    /\ pc' = "idle"
    /\ call' = NoCall
    /\ ret' = NoRet
    /\ UNCHANGED <<delta_sum, samples, threads, anchor_generators, cfg, true_positives, ground_truth_boxes>>

Next ==
    \/ CallUpdate
    \/ CallUpdateUnbatched
    \/ CallReset
    \/ CallResult
    \/ update_state
    \/ reset_state
    \/ result
    \/ Return

Spec == Init /\ [][Next]_vars

(***************************************************************************)
(* Properties.                                                             *)
(***************************************************************************)
ZeroCounters ==
    /\ \A t \in DOMAIN true_positives :
           \A k \in DOMAIN true_positives[t] : true_positives[t][k] = 0
    /\ \A k \in DOMAIN ground_truth_boxes : ground_truth_boxes[k] = 0

\* the call in flight is an update_state whose y_true or y_pred boxes are not
\* of rank 3
UnbatchedUpdate == call.op = "update" /\ (call.true_rank # 3 \/ call.pred_rank # 3)

\* the call in flight is an update_state with two batched inputs
BatchedUpdate == call.op = "update" /\ call.true_rank = 3 /\ call.pred_rank = 3

\* C1: an update_state call that fails the rank validation raises and leaves
\* true_positives and ground_truth_boxes exactly as they were before the call.
C1_FailedUpdateChangesNothing ==
    [][(pc = "called" /\ UnbatchedUpdate)
          => /\ ret'.kind = "raise"
             /\ true_positives' = true_positives
             /\ ground_truth_boxes' = ground_truth_boxes]_vars

\* an unbatched update_state has failed on a metric that holds counts, with a
\* ground-truth box of a requested class in the rejected input
C1_Witness ==
    /\ pc = "done"
    /\ UnbatchedUpdate
    /\ ret.kind = "raise"
    /\ ~ZeroCounters
    /\ \E k \in DOMAIN ground_truth_boxes :
           ground_truth_boxes_update(cfg, call.batch)[k] > 0

\* C2: update_state with y_true['boxes'] or y_pred['boxes'] not of rank 3
\* fails with the ValueError of the rank check, not with another failure.
C2_UnbatchedRaisesValueError ==
    (pc = "done" /\ UnbatchedUpdate) => (ret.kind = "raise" /\ ret.error = "ValueError")

\* C3: a new metric has all counters 0, reset_state returns all counters to 0
\* from any state, result() changes no counter, and only update_state and
\* reset_state change the counters.
C3_FreshResetAndResult ==
    /\ ZeroCounters
    /\ [][/\ (pc = "called" /\ call.op = "reset") => ZeroCounters'
          /\ (pc = "called" /\ call.op = "result")
                => UNCHANGED <<true_positives, ground_truth_boxes>>
          /\ (true_positives' # true_positives \/ ground_truth_boxes' # ground_truth_boxes)
                => (pc = "called" /\ call.op \in {"update", "reset"})]_vars

\* reset_state is called on a metric that holds counts (and then zeroes them)
C3_Witness ==
    /\ pc = "called"
    /\ call.op = "reset"
    /\ \E k \in DOMAIN ground_truth_boxes :
           ground_truth_boxes[k] > 0 /\ true_positives[1][k] > 0

NonNegativeCounters ==
    /\ \A t \in DOMAIN true_positives :
           \A k \in DOMAIN true_positives[t] : true_positives[t][k] >= 0
    /\ \A k \in DOMAIN ground_truth_boxes : ground_truth_boxes[k] >= 0

\* C4: a successful update_state leaves every true_positives and
\* ground_truth_boxes cell at least as large as before, and no cell is ever
\* negative.
C4_CountersOnlyGrow ==
    /\ [][(pc = "called" /\ BatchedUpdate)
            => /\ \A t \in DOMAIN true_positives :
                      \A k \in DOMAIN true_positives[t] :
                          true_positives'[t][k] >= true_positives[t][k]
               /\ \A k \in DOMAIN ground_truth_boxes :
                      ground_truth_boxes'[k] >= ground_truth_boxes[k]]_vars
    /\ []NonNegativeCounters

\* a second update_state has succeeded: the counters exceed what the batch of
\* this call adds, and the batch holds a detection that is not matched
C4_Witness ==
    /\ pc = "done"
    /\ BatchedUpdate
    /\ \E k \in DOMAIN ground_truth_boxes :
           /\ ground_truth_boxes_update(cfg, call.batch)[k] > 0
           /\ ground_truth_boxes[k] > ground_truth_boxes_update(cfg, call.batch)[k]
    /\ \E i \in DOMAIN call.batch, k \in DOMAIN ground_truth_boxes :
           \E d \in DOMAIN pred_matches(cfg, call.batch[i], k, 1) :
               pred_matches(cfg, call.batch[i], k, 1)[d] = 0 - 1

\* C5: result() returns exactly 0, without dividing by zero, whenever no
\* requested category has accumulated a ground-truth box.
C5_ResultZeroWithoutGroundTruth ==
    (pc = "done" /\ call.op = "result"
        /\ \A k \in DOMAIN ground_truth_boxes : ground_truth_boxes[k] = 0)
      => (ret.kind = "value" /\ ret.value = <<0, 1>>)

\* result() has returned on a metric without any ground-truth box
C5_Witness ==
    /\ pc = "done"
    /\ call.op = "result"
    /\ ret.kind = "value"
    /\ \A k \in DOMAIN ground_truth_boxes : ground_truth_boxes[k] = 0

RECURSIVE ProdOver(_, _)
\* the product of f[k] over the k of the set S
ProdOver(f, S) ==
    IF S = {} THEN 1
    ELSE LET k == CHOOSE x \in S : TRUE IN f[k] * ProdOver(f, S \ {k})

RECURSIVE SumOver(_, _)
\* the sum of f[k] over the k of the set S
SumOver(f, S) ==
    IF S = {} THEN 0
    ELSE LET k == CHOOSE x \in S : TRUE IN f[k] + SumOver(f, S \ {k})

\* the categories that have accumulated a ground-truth box
Present == {k \in DOMAIN ground_truth_boxes : ground_truth_boxes[k] > 0}

\* C6: with at least one present category, result() is the mean over the
\* thresholds of (the sum over the present categories of true_positives[t][k]
\* / ground_truth_boxes[k]) / (number of present categories); the categories
\* without ground truth add nothing and are not counted in the denominator.
\* Stated over the integers: with D the product of the present counts,
\* result * (T * |Present| * D) = sum over t and present k of tp[t][k] * D / gtb[k].
C6_ResultIsMeanRecall ==
    (pc = "done" /\ call.op = "result" /\ Present # {})
      => LET T == Len(true_positives)
             D == ProdOver(ground_truth_boxes, Present)
             N == SumOver([t \in 1..T |->
                              SumOver([k \in Present |->
                                          true_positives[t][k]
                                              * (D \div ground_truth_boxes[k])],
                                      Present)],
                          1..T)
         IN  /\ ret.kind = "value"
             /\ ret.value[2] > 0
             /\ ret.value[1] * (T * Cardinality(Present) * D) = ret.value[2] * N

\* result() has returned a recall strictly between 0 and 1 on a metric with
\* two requested categories of which one has no ground truth
C6_Witness ==
    /\ pc = "done"
    /\ call.op = "result"
    /\ Present # {}
    /\ Present # DOMAIN ground_truth_boxes
    /\ ret.value[1] > 0
    /\ ret.value[1] < ret.value[2]

\* the ground-truth entry e passes the area-range filter of the metric
InAreaRange(e) ==
    \/ cfg.area_range = None
    \/ /\ bounding_box_area(e.box) >= cfg.area_range[1]
       /\ bounding_box_area(e.box) < cfg.area_range[2]

\* the number of ground-truth entries of the batch of the call that are of
\* class class_ids[k] and pass the area-range filter
GroundTruthCount(k) ==
    Cardinality({ij \in {<<i, j>> : i \in DOMAIN call.batch, j \in 1..MaxBoxes} :
                    /\ ij[2] \in DOMAIN call.batch[ij[1]].true
                    /\ call.batch[ij[1]].true[ij[2]].cls = cfg.class_ids[k]
                    /\ InAreaRange(call.batch[ij[1]].true[ij[2]])})

SingleConfig(k, t) ==
    Config(<<cfg.class_ids[k]>>, <<cfg.iou_thresholds[t]>>, cfg.max_detections,
           cfg.area_range)

CategoryPredictions(image, k) ==
    {j \in DOMAIN image.pred :
        image.pred[j].cls = cfg.class_ids[k] /\ InAreaRange(image.pred[j])}

\* C9: for every image and category the detections passed to the matcher are
\* the min(max_detections, n) predictions of highest confidence among the n
\* predictions of the category, in descending order of confidence; one image
\* adds at most max_detections to any true_positives cell.
C9_DetectionsCutToMaxDetections ==
    (pc \in {"called", "done"} /\ BatchedUpdate)
      => \A i \in DOMAIN call.batch :
             \A k \in DOMAIN ground_truth_boxes :
                 LET image == call.batch[i]
                     all   == CategoryPredictions(image, k)
                     dets  == detections(cfg, image, k)
                     kept  == {j \in all : \E d \in DOMAIN dets : dets[d] = image.pred[j]}
                 IN  /\ Len(dets) = Min(cfg.max_detections, Cardinality(all))
                     /\ Cardinality(kept) = Len(dets)
                     /\ \A d, e \in DOMAIN dets : d < e => dets[d].conf > dets[e].conf
                     /\ \A j \in all \ kept :
                            \A d \in DOMAIN dets : image.pred[j].conf < dets[d].conf
                     /\ \A t \in DOMAIN true_positives :
                            true_positives_sum(cfg, image, k, t) <= cfg.max_detections

\* an update_state has run on an image that holds more than max_detections
\* predictions of a category, given in ascending order of confidence, and as
\* many ground-truth boxes that each of them overlaps
C9_Witness ==
    /\ pc = "done"
    /\ BatchedUpdate
    /\ \E i \in DOMAIN call.batch :
           /\ Cardinality(CategoryPredictions(call.batch[i], 1)) > cfg.max_detections
           /\ Len(ground_truths(cfg, call.batch[i], 1)) > cfg.max_detections
           /\ call.batch[i].pred[1].conf < call.batch[i].pred[2].conf
           /\ true_positives_sum(cfg, call.batch[i], 1, 1) = cfg.max_detections

\* y_pred of the call has the same boxes and the same classes as y_true
IdenticalInputs ==
    \A i \in DOMAIN call.batch :
        /\ Len(call.batch[i].pred) = Len(call.batch[i].true)
        /\ \A j \in DOMAIN call.batch[i].true :
               /\ call.batch[i].pred[j].box = call.batch[i].true[j].box
               /\ call.batch[i].pred[j].cls = call.batch[i].true[j].cls

\* the ground-truth entries of image i of the call that are of a requested class
RequestedTrue(i) ==
    {j \in DOMAIN call.batch[i].true :
        \E k \in DOMAIN cfg.class_ids : call.batch[i].true[j].cls = cfg.class_ids[k]}

NothingDropped ==
    /\ \E i \in DOMAIN call.batch :
           \E j \in RequestedTrue(i) : InAreaRange(call.batch[i].true[j])
    /\ \A i \in DOMAIN call.batch :
           \A j \in RequestedTrue(i) :
               InAreaRange(call.batch[i].true[j])
                   => bounding_box_area(call.batch[i].true[j].box) > 0
    /\ \A i \in DOMAIN call.batch :
           \A k \in DOMAIN cfg.class_ids :
               Cardinality({j \in DOMAIN call.batch[i].true :
                               /\ call.batch[i].true[j].cls = cfg.class_ids[k]
                               /\ InAreaRange(call.batch[i].true[j])})
                   <= cfg.max_detections

NoValidPredictions ==
    \A i \in DOMAIN call.batch :
        \A j \in DOMAIN call.batch[i].pred : call.batch[i].pred[j].cls = PaddingClass

ZeroTruePositives(tp) == \A t \in DOMAIN tp : \A k \in DOMAIN tp[t] : tp[t][k] = 0

NotCreated == <<>>

\* no metric has been constructed
NoConfig == Config(<<>>, <<>>, 0, None)

\* [x / 100.0 for x in range(50, 100, 5)], in percent
DefaultIouThresholds == <<50, 55, 60, 65, 70, 75, 80, 85, 90, 95>>

\* the class_ids arguments: up to two ids, negative ones and 0 among them
ClassIdLists ==
    {<<>>} \cup {<<a>> : a \in {0 - 1, 0, 1, 2}}
           \cup {<<a, b>> : a \in {0 - 1, 0, 1, 2}, b \in {0 - 1, 0, 1, 2}}

\* the arguments of the constructor; iou_thresholds = None asks for the default
InitArguments ==
    {[op |-> "__init__", class_ids |-> ids, iou_thresholds |-> th,
      max_detections |-> md, area_range |-> ar] :
        ids \in ClassIdLists, th \in {None, <<50>>, <<50, 75>>},
        md \in {1, 2}, ar \in {None, <<3, 5>>}}

\* any([c <= 0 for c in class_ids])
any_non_positive_class_id(class_ids) == \E i \in DOMAIN class_ids : class_ids[i] <= 0

\* any([c < 0 for c in class_ids])
any_negative_class_id(class_ids) == \E i \in DOMAIN class_ids : class_ids[i] < 0

\* iou_thresholds or [x / 100.0 for x in range(50, 100, 5)]
iou_thresholds_or_default(th) == IF th = None THEN DefaultIouThresholds ELSE th

\* no metric exists yet
InitConstruct ==
    /\ cfg = NoConfig
    /\ true_positives = NotCreated
    /\ ground_truth_boxes = NotCreated
    /\ anchor_generators = NoAnchorGenerators
    /\ delta_sum = NoMeanBoxCountDelta
    /\ samples = NoMeanBoxCountDelta
    /\ threads = NoThreads
    /\ pc = "idle"
    /\ call = NoCall
    /\ ret = NoRet

\* the caller constructs a metric
CallInit ==
    /\ pc = "idle"
    /\ true_positives = NotCreated
    /\ call' \in InitArguments
    /\ pc' = "called"
    /\ UNCHANGED <<delta_sum, samples, threads, anchor_generators, cfg, true_positives, ground_truth_boxes, ret>>

\* _BoxRecall.__init__
BoxRecall_init ==
    /\ pc = "called"
    /\ call.op = "__init__"
    /\ IF any_negative_class_id(call.class_ids)
       THEN /\ ret' = [NoRet EXCEPT !.kind = "raise", !.error = "ValueError"]
            /\ UNCHANGED <<cfg, true_positives, ground_truth_boxes>>
       ELSE /\ cfg' = Config(call.class_ids,
                             iou_thresholds_or_default(call.iou_thresholds),
                             call.max_detections, call.area_range)
            /\ true_positives' = zeros_true_positives(cfg')
            /\ ground_truth_boxes' = zeros_ground_truth_boxes(cfg')
            /\ ret' = [NoRet EXCEPT !.kind = "ok"]
    /\ pc' = "done"
    /\ UNCHANGED <<delta_sum, samples, threads, anchor_generators, call>>

NextConstruct ==
    \/ CallInit
    \/ BoxRecall_init
    \/ Return

SpecConstruct == InitConstruct /\ [][NextConstruct]_vars

\* C12: the constructor raises ValueError, before any counter is created, when
\* class_ids holds a negative id; with non-negative ids only (0 among them) it
\* succeeds and creates the two counters, all zero.
C12_NegativeClassIdsRejected ==
    [][(pc = "called" /\ call.op = "__init__")
          => IF \E i \in DOMAIN call.class_ids : call.class_ids[i] < 0
             THEN /\ ret'.kind = "raise"
                  /\ ret'.error = "ValueError"
                  /\ true_positives' = NotCreated
                  /\ ground_truth_boxes' = NotCreated
             ELSE /\ ret'.kind = "ok"
                  /\ cfg'.class_ids = call.class_ids
                  /\ Len(true_positives') > 0
                  /\ \A t \in DOMAIN true_positives' :
                         /\ Len(true_positives'[t]) = Len(call.class_ids)
                         /\ \A k \in DOMAIN true_positives'[t] : true_positives'[t][k] = 0
                  /\ Len(ground_truth_boxes') = Len(call.class_ids)
                  /\ \A k \in DOMAIN ground_truth_boxes' : ground_truth_boxes'[k] = 0]_vars

\* the constructor has rejected class_ids that hold a valid id and a negative one
C12_Witness ==
    /\ pc = "done"
    /\ call.op = "__init__"
    /\ Len(call.class_ids) = 2
    /\ call.class_ids[1] > 0
    /\ call.class_ids[2] < 0
    /\ ret.kind = "raise"
    /\ true_positives = NotCreated

(***************************************************************************)
(* utils.match_boxes on its own: the caller passes an IoU matrix (rows:    *)
(* ground truths, columns: detections in descending order of confidence)   *)
(* and a threshold.  Rows and columns are numbered from 1 here, from 0 in  *)
(* the source; -1 is the sentinel of both.                                 *)
(***************************************************************************)
\* largest number of rows and of columns of the IoU matrix
MaxRows == 2
MaxColumns == 2

\* the IoUs of the matrices: 0.3, 0.5 and 0.9
IouValues == {<<3, 10>>, <<1, 2>>, <<9, 10>>}

\* the thresholds, in percent
MatchThresholds == {50, 90}

\* the IoU matrices of r rows and c columns
IouMatrices(r, c) == [1..r -> [1..c -> IouValues]]

\* the matcher is called
InitMatch ==
    /\ cfg = NoConfig
    /\ true_positives = NotCreated
    /\ ground_truth_boxes = NotCreated
    /\ anchor_generators = NoAnchorGenerators
    /\ delta_sum = NoMeanBoxCountDelta
    /\ samples = NoMeanBoxCountDelta
    /\ threads = NoThreads
    /\ pc = "called"
    /\ \E r \in 0..MaxRows, c \in 0..MaxColumns :
           \E m \in IouMatrices(r, c), th \in MatchThresholds :
               call = [op |-> "match_boxes", ious |-> m, threshold |-> th,
                       num_gt |-> r, num_det |-> c]
    /\ ret = NoRet

\* pred_matches = utils.match_boxes(ious, threshold)
MatchBoxes ==
    /\ pc = "called"
    /\ call.op = "match_boxes"
    /\ ret' = [NoRet EXCEPT !.kind = "value",
                            !.value = match_boxes(call.ious, call.threshold,
                                                  call.num_gt, call.num_det)]
    /\ pc' = "done"
    /\ UNCHANGED <<delta_sum, samples, threads, anchor_generators, cfg, true_positives, ground_truth_boxes, call>>

NextMatch == MatchBoxes

SpecMatch == InitMatch /\ [][NextMatch]_vars

MatchDone == pc = "done" /\ call.op = "match_boxes"

\* the rows that the detections before d have taken in the result r
TakenBefore(r, d) == {r[e] : e \in 1..(d - 1)} \ {0 - 1}

\* C13: the result of the matcher is one-to-one: each detection gets one row
\* index or -1, no row is given to two detections, every assigned pair has
\* IoU >= threshold, and a detection gets -1 when no row that is still
\* unmatched reaches the threshold.
C13_MatchIsOneToOne ==
    MatchDone
      => LET r == ret.value
         IN  /\ Len(r) = call.num_det
             /\ \A d \in DOMAIN r : r[d] = 0 - 1 \/ r[d] \in 1..call.num_gt
             /\ \A d, e \in DOMAIN r : (d # e /\ r[d] # 0 - 1) => r[d] # r[e]
             /\ \A d \in DOMAIN r :
                    r[d] # 0 - 1 => IouAtLeast(call.ious[r[d]][d], call.threshold)
             /\ \A d \in DOMAIN r :
                    (\A g \in (1..call.num_gt) \ TakenBefore(r, d) :
                         ~IouAtLeast(call.ious[g][d], call.threshold))
                      => r[d] = 0 - 1

\* two detections reach the threshold on the same single row: the first takes
\* it and the second gets -1
C13_Witness ==
    /\ MatchDone
    /\ call.num_gt = 1
    /\ call.num_det = 2
    /\ \A d \in 1..2 : IouAtLeast(call.ious[1][d], call.threshold)
    /\ ret.value = <<1, 0 - 1>>

\* the matrix [[0.9, 0.3], [0.3, 0.9]]
ExampleIous == <<<<(<<9, 10>>), (<<3, 10>>)>>, <<(<<3, 10>>), (<<9, 10>>)>>>>

\* the largest number of pairs of a one-to-one assignment of rows to columns
\* whose pairs all reach the threshold
OptimalMatches(ious, threshold, num_gt, num_det) ==
    LET Assignments ==
            {a \in [1..num_det -> (1..num_gt) \cup {0 - 1}] :
                /\ \A d, e \in 1..num_det : (d # e /\ a[d] # 0 - 1) => a[d] # a[e]
                /\ \A d \in 1..num_det :
                       a[d] # 0 - 1 => IouAtLeast(ious[a[d]][d], threshold)}
        Size(a) == Cardinality({d \in 1..num_det : a[d] # 0 - 1})
    IN  CHOOSE n \in 0..num_det :
            /\ \E a \in Assignments : Size(a) = n
            /\ \A a \in Assignments : Size(a) <= n

\* C14: the matcher takes the columns in order and gives each the row of
\* largest IoU among the rows not yet matched (the first of equal ones) when
\* that IoU is >= threshold, and -1 otherwise; for [[0.9, 0.3], [0.3, 0.9]] at
\* threshold 0.5 the result is [0, 1], here <<1, 2>>.
C14_GreedyTakesLargestFreeRow ==
    /\ match_boxes(ExampleIous, 50, 2, 2) = <<1, 2>>
    /\ MatchDone
         => LET r == ret.value
            IN  /\ Len(r) = call.num_det
                /\ \A d \in DOMAIN r :
                       LET free == (1..call.num_gt) \ TakenBefore(r, d)
                           top  == {g \in free :
                                       \A h \in free :
                                           IouGeq(call.ious[g][d], call.ious[h][d])}
                       IN  IF \E g \in top : IouAtLeast(call.ious[g][d], call.threshold)
                           THEN r[d] \in top /\ \A g \in top : r[d] <= g
                           ELSE r[d] = 0 - 1

\* the greedy result holds fewer matches than the best one-to-one assignment
C14_Witness ==
    /\ MatchDone
    /\ Cardinality({d \in DOMAIN ret.value : ret.value[d] # 0 - 1})
           < OptimalMatches(call.ious, call.threshold, call.num_gt, call.num_det)

(***************************************************************************)
(* AnchorGenerator (keras_cv/layers/object_detection/                      *)
(* scale_based_anchor_generator.py).                                       *)
(*                                                                         *)
(* A list argument is [kind |-> "list", items |-> the list]                *)
(* and a dict argument [kind |-> "dict", keys |-> its keys in insertion    *)
(* order, items |-> its values in the same order].  The layer is built     *)
(* with bounding_box_format = "yxyx", so that convert_format (source =     *)
(* target) keeps the anchors.  Coordinates are counted in quarter pixels,  *)
(* an aspect ratio is <<numerator, denominator>> with two perfect squares. *)
(***************************************************************************)
\* largest height and width of an image, in pixels
MaxImageSide == 5

\* quarter pixels in a pixel: 0.5 * stride and size / sqrt(ratio) / 2 are
\* whole numbers of quarter pixels for the strides, sizes and ratios below
Unit == 4

List(items) == [kind |-> "list", items |-> items]
Dict(keys, items) == [kind |-> "dict", keys |-> keys, items |-> items]

\* f"level_{i}", i counted from 0
LevelNames == <<"level_0", "level_1", "level_2", "level_3">>

\* the lists of sizes, strides and aspect ratios of one level
SizesLists == {<<>>, <<4>>, <<2, 4>>}
StridesLists == {<<>>, <<0>>, <<0 - 2>>, <<2>>, <<4>>, <<2, 4>>}
AspectRatiosLists ==
    {<<>>, <<(<<1, 1>>)>>, <<(<<1, 4>>), (<<4, 1>>)>>,
     <<(<<1, 4>>), (<<1, 1>>), (<<4, 1>>)>>}

\* the arguments of AnchorGenerator.__init__: lists, and dicts over the level
\* names "l1" and "l2"
ScalesArguments ==
    {List(<<>>), List(<<1>>), List(<<1, 2>>),
     Dict(<<"l1">>, <<1>>), Dict(<<"l2">>, <<1>>), Dict(<<"l1", "l2">>, <<1, 2>>)}

SizesArguments ==
    {List(l) : l \in SizesLists}
      \cup {Dict(<<"l1">>, <<l>>) : l \in SizesLists}
      \cup {Dict(<<"l2">>, <<l>>) : l \in SizesLists}
      \cup {Dict(<<"l1", "l2">>, <<l, l>>) : l \in SizesLists}
      \cup {Dict(<<"l1", "l2">>, <<(<<4>>), (<<2, 4>>)>>)}

StridesArguments ==
    {List(l) : l \in StridesLists}
      \cup {Dict(<<"l1">>, <<l>>) : l \in StridesLists}
      \cup {Dict(<<"l2">>, <<l>>) : l \in StridesLists}
      \cup {Dict(<<"l1", "l2">>, <<l, l>>) : l \in StridesLists}

AspectRatiosArguments ==
    {List(l) : l \in AspectRatiosLists}
      \cup {Dict(<<"l1">>, <<(<<(<<1, 1>>)>>)>>),
            Dict(<<"l1", "l2">>, <<(<<(<<1, 1>>)>>), (<<(<<1, 1>>)>>)>>)}

AnchorGeneratorArguments ==
    {[op |-> "AnchorGenerator.__init__", sizes |-> si, scales |-> sc,
      aspect_ratios |-> ar, strides |-> st, clip_boxes |-> cl] :
        si \in SizesArguments, sc \in ScalesArguments,
        ar \in AspectRatiosArguments, st \in StridesArguments, cl \in BOOLEAN}

\* the images: height and width in pixels, each at least half the largest
\* stride
Images == {<<h, w>> : h \in 2..MaxImageSide, w \in 2..MaxImageSide}

\* set(d.keys()) and d[key] of a dict
KeySet(d) == {d.keys[i] : i \in DOMAIN d.keys}
Lookup(d, key) == d.items[CHOOSE i \in DOMAIN d.keys : d.keys[i] = key]

Raise(error, message, subject) ==
    [kind |-> "raise", error |-> error, value |-> <<message, subject>>]
Value(v) == [kind |-> "value", error |-> "", value |-> v]

\* AnchorGenerator._pack_parameter_to_dict for a list or a dict
pack_parameter_to_dict_from_level_1(param) ==
    IF param.kind = "dict" THEN Dict(param.keys, param.items)
    ELSE Dict([i \in DOMAIN param.items |-> LevelNames[i + 1]], param.items)

pack_parameter_to_dict(param) ==
    IF param.kind = "dict" THEN Dict(param.keys, param.items)
    ELSE Dict([i \in DOMAIN param.items |-> LevelNames[i]], param.items)

\* AnchorGenerator._broadcast_parameter_to_scales for a list or a dict: a list
\* becomes the value of every key of scales, and the keys are compared with
\* the keys of scales
broadcast_parameter_to_scales(param, param_name, scales) ==
    LET filled == IF param.kind = "list"
                  THEN Dict(scales.keys, [i \in DOMAIN scales.keys |-> param.items])
                  ELSE Dict(param.keys, param.items)
    IN  IF KeySet(scales) # KeySet(filled)
        THEN [raised |-> TRUE,
              value |-> Raise("ValueError",
                              "Expected to contain the same keys as scales",
                              param_name)]
        ELSE [raised |-> FALSE, value |-> filled]

\* the positions, in the order of the keys of sizes, of the levels whose sizes
\* and strides differ in length
MismatchedLevels(sizes, strides) ==
    {i \in DOMAIN sizes.keys :
        Len(sizes.items[i]) # Len(Lookup(strides, sizes.keys[i]))}

\* AnchorGenerator._validate_sizes_and_strides: the first level, in the order
\* of the keys of sizes, whose sizes and strides differ in length is reported
validate_first_level_only(sizes, strides) ==
    IF 1 \in MismatchedLevels(sizes, strides)
    THEN [raised |-> TRUE,
          value |-> Raise("ValueError",
                          "Expected sizes and strides to be of the same length. At level",
                          sizes.keys[1])]
    ELSE [raised |-> FALSE, value |-> NoRet]

validate_sizes_and_strides(sizes, strides) ==
    LET mismatched == MismatchedLevels(sizes, strides)
    IN  IF mismatched # {}
        THEN [raised |-> TRUE,
              value |-> Raise("ValueError",
                              "Expected sizes and strides to be of the same length. At level",
                              sizes.keys[CHOOSE i \in mismatched :
                                            \A j \in mismatched : i <= j])]
        ELSE [raised |-> FALSE, value |-> NoRet]

\* _SingleAnchorGenerator.__init__: the fields of the generator of one level
SingleAnchorGenerator(scale, sizes, aspect_ratios, stride, clip_boxes) ==
    [scale |-> scale, sizes |-> sizes, aspect_ratios |-> aspect_ratios,
     stride |-> stride, clip_boxes |-> clip_boxes]

\* the body of AnchorGenerator.__init__: what it raises, or the generators it
\* builds, one for every key of scales
anchor_generator_init_keys_first(args) ==
    LET scales == pack_parameter_to_dict(args.scales)
        sizes == broadcast_parameter_to_scales(args.sizes, "sizes", scales)
        strides == broadcast_parameter_to_scales(args.strides, "strides", scales)
        lengths == validate_sizes_and_strides(sizes.value, strides.value)
        aspect_ratios ==
            broadcast_parameter_to_scales(args.aspect_ratios, "aspect_ratios", scales)
    IN  IF sizes.raised THEN sizes
        ELSE IF strides.raised THEN strides
        ELSE IF aspect_ratios.raised THEN aspect_ratios
        ELSE IF lengths.raised THEN lengths
        ELSE [raised |-> FALSE,
              value |->
                [built |-> TRUE,
                 keys |-> scales.keys,
                 items |->
                    [i \in DOMAIN scales.keys |->
                        SingleAnchorGenerator(
                            scales.items[i],
                            Lookup(sizes.value, scales.keys[i]),
                            Lookup(aspect_ratios.value, scales.keys[i]),
                            Lookup(strides.value, scales.keys[i]),
                            args.clip_boxes)]]]

anchor_generator_init(args) ==
    LET scales == pack_parameter_to_dict(args.scales)
        sizes == broadcast_parameter_to_scales(args.sizes, "sizes", scales)
        strides == broadcast_parameter_to_scales(args.strides, "strides", scales)
        lengths == validate_sizes_and_strides(sizes.value, strides.value)
        aspect_ratios ==
            broadcast_parameter_to_scales(args.aspect_ratios, "aspect_ratios", scales)
    IN  IF sizes.raised THEN sizes
        ELSE IF strides.raised THEN strides
        ELSE IF lengths.raised THEN lengths
        ELSE IF aspect_ratios.raised THEN aspect_ratios
        ELSE [raised |-> FALSE,
              value |->
                [built |-> TRUE,
                 keys |-> scales.keys,
                 items |->
                    [i \in DOMAIN scales.keys |->
                        SingleAnchorGenerator(
                            scales.items[i],
                            Lookup(sizes.value, scales.keys[i]),
                            Lookup(aspect_ratios.value, scales.keys[i]),
                            Lookup(strides.value, scales.keys[i]),
                            args.clip_boxes)]]]

\* a caller constructs an AnchorGenerator
CallAnchorGeneratorInit ==
    /\ pc = "idle"
    /\ ~anchor_generators.built
    /\ pc' = "called"
    /\ call' \in AnchorGeneratorArguments
    /\ UNCHANGED <<delta_sum, samples, threads, anchor_generators, cfg, true_positives, ground_truth_boxes, ret>>

\* AnchorGenerator.__init__
AnchorGenerator_init ==
    /\ pc = "called"
    /\ call.op = "AnchorGenerator.__init__"
    /\ pc' = "done"
    /\ LET r == anchor_generator_init(call)
       IN  IF r.raised
           THEN /\ ret' = r.value
                /\ UNCHANGED anchor_generators
           ELSE /\ ret' = [NoRet EXCEPT !.kind = "ok"]
                /\ anchor_generators' = r.value
    /\ UNCHANGED <<delta_sum, samples, threads, cfg, true_positives, ground_truth_boxes,
                   call>>

\* tf.sqrt of an aspect ratio whose numerator and denominator are squares
sqrt_ratio(ratio) ==
    <<CHOOSE p \in 0..ratio[1] : p * p = ratio[1],
      CHOOSE q \in 0..ratio[2] : q * q = ratio[2]>>

\* 0.5 * (size * scale / sqrt(ratio)) and 0.5 * (size * scale * sqrt(ratio)),
\* in quarter pixels
half_anchor_height(size, scale, ratio) ==
    (Unit * size * scale * sqrt_ratio(ratio)[2]) \div (2 * sqrt_ratio(ratio)[1])
half_anchor_width(size, scale, ratio) ==
    (Unit * size * scale * sqrt_ratio(ratio)[1]) \div (2 * sqrt_ratio(ratio)[2])

\* the shapes [n] and [r] of two vectors broadcast against each other
Broadcastable(n, r) == n = r \/ n = 1 \/ r = 1
BroadcastLen(n, r) == IF n = 1 THEN r ELSE n
BroadcastIndex(a, n) == IF n = 1 THEN 1 ELSE a

\* tf.range(start, limit, delta) takes scalars, or vectors of one element
range_accepts(stride, side) ==
    /\ Len(stride) = 1
    /\ stride[1] # 0
    /\ stride[1] > 0 => (Unit * stride[1]) \div 2 <= Unit * side
    /\ stride[1] < 0 => (Unit * stride[1]) \div 2 >= Unit * side

\* tf.range(0.5 * stride, side, stride) for a positive stride, in quarter
\* pixels: the centers 0.5 * stride + i * stride below side
centers(stride, side) ==
    LET start == (Unit * stride) \div 2
        delta == Unit * stride
        limit == Unit * side
        n == (limit - start + delta - 1) \div delta
    IN  [i \in 1..n |-> start + (i - 1) * delta]

\* lines 269..273: the four coordinates of a box [y_min, x_min, y_max, x_max]
\* clipped to the image
clip_to_image_width(box, image_height, image_width) ==
    <<Max(Min(box[1], Unit * image_width), 0),
      Max(Min(box[2], Unit * image_width), 0),
      Max(Min(box[3], Unit * image_width), 0),
      Max(Min(box[4], Unit * image_width), 0)>>

clip_to_image(box, image_height, image_width) ==
    <<Max(Min(box[1], Unit * image_height), 0),
      Max(Min(box[2], Unit * image_width), 0),
      Max(Min(box[3], Unit * image_height), 0),
      Max(Min(box[4], Unit * image_width), 0)>>

\* _SingleAnchorGenerator.__call__ where the shapes agree and tf.range accepts
\* the stride: the boxes [y_min, x_min, y_max, x_max] in the order of the
\* reshape of [rows, columns, K]
single_anchor_boxes_column_major(g, image_height, image_width) ==
    LET n == Len(g.sizes)
        r == Len(g.aspect_ratios)
        K == BroadcastLen(n, r)
        cx == centers(g.stride[1], image_width)
        cy == centers(g.stride[1], image_height)
        hh(a) == half_anchor_height(g.sizes[BroadcastIndex(a, n)], g.scale,
                                    g.aspect_ratios[BroadcastIndex(a, r)])
        hw(a) == half_anchor_width(g.sizes[BroadcastIndex(a, n)], g.scale,
                                   g.aspect_ratios[BroadcastIndex(a, r)])
        box(m) ==
            LET col == ((m - 1) \div (Len(cy) * K)) + 1
                row == (((m - 1) \div K) % Len(cy)) + 1
                a == ((m - 1) % K) + 1
            IN  <<cy[row] - hh(a), cx[col] - hw(a), cy[row] + hh(a), cx[col] + hw(a)>>
    IN  [m \in 1..(Len(cy) * Len(cx) * K) |->
            IF g.clip_boxes THEN clip_to_image(box(m), image_height, image_width)
            ELSE box(m)]

single_anchor_boxes(g, image_height, image_width) ==
    LET n == Len(g.sizes)
        r == Len(g.aspect_ratios)
        K == BroadcastLen(n, r)
        cx == centers(g.stride[1], image_width)
        cy == centers(g.stride[1], image_height)
        hh(a) == half_anchor_height(g.sizes[BroadcastIndex(a, n)], g.scale,
                                    g.aspect_ratios[BroadcastIndex(a, r)])
        hw(a) == half_anchor_width(g.sizes[BroadcastIndex(a, n)], g.scale,
                                   g.aspect_ratios[BroadcastIndex(a, r)])
        box(m) ==
            LET row == ((m - 1) \div (Len(cx) * K)) + 1
                col == (((m - 1) \div K) % Len(cx)) + 1
                a == ((m - 1) % K) + 1
            IN  <<cy[row] - hh(a), cx[col] - hw(a), cy[row] + hh(a), cx[col] + hw(a)>>
    IN  [m \in 1..(Len(cy) * Len(cx) * K) |->
            IF g.clip_boxes THEN clip_to_image(box(m), image_height, image_width)
            ELSE box(m)]

\* _SingleAnchorGenerator.__call__: what it raises, or its boxes
single_anchor_generator_call(g, image_height, image_width) ==
    IF ~Broadcastable(Len(g.sizes), Len(g.aspect_ratios))
    THEN [raised |-> TRUE,
          value |-> Raise("InvalidArgumentError", "Incompatible shapes", "")]
    ELSE IF ~(range_accepts(g.stride, image_width)
                /\ range_accepts(g.stride, image_height))
    THEN [raised |-> TRUE,
          value |-> Raise("InvalidArgumentError", "tf.range", "")]
    ELSE [raised |-> FALSE,
          value |-> single_anchor_boxes(g, image_height, image_width)]

\* the body of AnchorGenerator.__call__: the first error of a level, or the
\* boxes of every level under the key of the level
anchor_generator_call(gens, image) ==
    LET results == [i \in DOMAIN gens.keys |->
                        single_anchor_generator_call(gens.items[i], image[1], image[2])]
        failed == {i \in DOMAIN gens.keys : results[i].raised}
    IN  IF failed # {}
        THEN results[CHOOSE i \in failed : \A j \in failed : i <= j].value
        ELSE Value(Dict(gens.keys, [i \in DOMAIN gens.keys |-> results[i].value]))

\* a caller passes an image to a constructed AnchorGenerator
CallAnchorGenerator ==
    /\ pc = "idle"
    /\ anchor_generators.built
    /\ pc' = "called"
    /\ \E image \in Images :
          call' = [op |-> "AnchorGenerator.__call__", image |-> image]
    /\ UNCHANGED <<delta_sum, samples, threads, anchor_generators, cfg, true_positives, ground_truth_boxes, ret>>

\* AnchorGenerator.__call__
AnchorGenerator_call ==
    /\ pc = "called"
    /\ call.op = "AnchorGenerator.__call__"
    /\ pc' = "done"
    /\ ret' = anchor_generator_call(anchor_generators, call.image)
    /\ UNCHANGED <<delta_sum, samples, threads, anchor_generators, cfg, true_positives, ground_truth_boxes, call>>

InitAnchors ==
    /\ cfg = NoConfig
    /\ true_positives = NotCreated
    /\ ground_truth_boxes = NotCreated
    /\ anchor_generators = NoAnchorGenerators
    /\ delta_sum = NoMeanBoxCountDelta
    /\ samples = NoMeanBoxCountDelta
    /\ threads = NoThreads
    /\ pc = "idle"
    /\ call = NoCall
    /\ ret = NoRet

NextAnchors ==
    \/ CallAnchorGeneratorInit
    \/ AnchorGenerator_init
    \/ CallAnchorGenerator
    \/ AnchorGenerator_call
    \/ Return

SpecAnchors == InitAnchors /\ [][NextAnchors]_vars

(***************************************************************************)
(* Claims about the construction of an AnchorGenerator.                    *)
(***************************************************************************)
\* AnchorGenerator.__init__ has run on the arguments in call
InitDone == pc = "done" /\ call.op = "AnchorGenerator.__init__"

\* the level names that scales defines, and their order
LevelOrder == pack_parameter_to_dict(call.scales).keys
Levels == {LevelOrder[i] : i \in DOMAIN LevelOrder}

\* the keys of an argument (a list has the keys of scales), their order, and
\* the list the argument holds for a key
ParamKeyOrder(param) == IF param.kind = "list" THEN LevelOrder ELSE param.keys
ParamKeys(param) == {ParamKeyOrder(param)[i] : i \in DOMAIN ParamKeyOrder(param)}
ParamAt(param, key) ==
    IF param.kind = "list" THEN param.items ELSE Lookup(param, key)

\* the levels of both sizes and strides at which their lengths differ
DifferingLevels ==
    {key \in ParamKeys(call.sizes) \cap ParamKeys(call.strides) :
        Len(ParamAt(call.sizes, key)) # Len(ParamAt(call.strides, key))}

FlatListsOfUnequalLength ==
    /\ call.sizes.kind = "list"
    /\ call.strides.kind = "list"
    /\ Len(call.sizes.items) # Len(call.strides.items)

RaisedLengthError ==
    /\ ret.kind = "raise"
    /\ ret.error = "ValueError"
    /\ ret.value[1] = "Expected sizes and strides to be of the same length. At level"

\* C15, as stated: a construction with sizes and strides whose lengths differ
\* at some level, or with flat lists of unequal length, raises the ValueError
\* about the lengths of sizes and strides, and the message names a level at
\* which they differ.
C15_LengthMismatchRaises ==
    (InitDone /\ (DifferingLevels # {} \/ FlatListsOfUnequalLength))
        => /\ RaisedLengthError
           /\ DifferingLevels # {} => ret.value[2] \in DifferingLevels

\* C15, amended: when sizes and strides both have exactly the keys of scales
\* (a flat list has them by broadcasting) and their lengths differ at some
\* level, the construction raises the ValueError about the lengths, the
\* message names the first such level in the order of the keys of sizes, and
\* no generator is built.
C15_LengthMismatchRaisesWhenKeysMatch ==
    (/\ InitDone
     /\ ParamKeys(call.sizes) = Levels
     /\ ParamKeys(call.strides) = Levels
     /\ DifferingLevels # {})
        => /\ RaisedLengthError
           /\ ret.value[2] \in DifferingLevels
           /\ \A i \in DOMAIN ParamKeyOrder(call.sizes) :
                 ParamKeyOrder(call.sizes)[i] = ret.value[2]
                    => \A j \in 1..(i - 1) :
                          ParamKeyOrder(call.sizes)[j] \notin DifferingLevels
           /\ ~anchor_generators.built

\* C15, witness: sizes and strides agree at level "l1" and differ at level
\* "l2", and the error names "l2".
C15_Witness ==
    /\ InitDone
    /\ ParamKeys(call.sizes) = Levels
    /\ ParamKeys(call.strides) = Levels
    /\ DifferingLevels = {"l2"}
    /\ Levels = {"l1", "l2"}
    /\ RaisedLengthError
    /\ ret.value[2] = "l2"

\* the arguments given as a mapping whose key set differs from that of scales
MismatchedParams ==
    {name \in {"sizes", "strides", "aspect_ratios"} :
        LET param == IF name = "sizes" THEN call.sizes
                     ELSE IF name = "strides" THEN call.strides
                     ELSE call.aspect_ratios
        IN  param.kind = "dict" /\ KeySet(param) # Levels}

RaisedKeyError ==
    /\ ret.kind = "raise"
    /\ ret.error = "ValueError"
    /\ ret.value[1] = "Expected to contain the same keys as scales"

\* C16, as stated: a construction with a mapping for sizes, strides or
\* aspect_ratios whose key set differs from that of scales raises the
\* ValueError about the keys, the message names such a parameter, and no
\* generator is built.
C16_KeyMismatchRaisesNamingParameter ==
    (InitDone /\ MismatchedParams # {})
        => /\ RaisedKeyError
           /\ ret.value[2] \in MismatchedParams
           /\ ~anchor_generators.built

\* C16, amended: such a construction raises a ValueError and builds no
\* generator; the error is the one about the keys and names sizes when the
\* keys of sizes differ, else strides when the keys of strides differ; when
\* only the keys of aspect_ratios differ it is the error about the lengths of
\* sizes and strides if they differ at some level, and else the one about the
\* keys, naming aspect_ratios.
C16_KeyMismatchRaisesInValidationOrder ==
    (InitDone /\ MismatchedParams # {})
        => /\ ret.kind = "raise"
           /\ ret.error = "ValueError"
           /\ ~anchor_generators.built
           /\ IF "sizes" \in MismatchedParams
                THEN RaisedKeyError /\ ret.value[2] = "sizes"
              ELSE IF "strides" \in MismatchedParams
                THEN RaisedKeyError /\ ret.value[2] = "strides"
              ELSE IF DifferingLevels # {}
                THEN RaisedLengthError /\ ret.value[2] \in DifferingLevels
              ELSE RaisedKeyError /\ ret.value[2] = "aspect_ratios"

\* C16, witness: only the keys of aspect_ratios differ from those of scales,
\* sizes and strides differ in length at a level, and the error is the one
\* about the lengths.
C16_Witness ==
    /\ InitDone
    /\ MismatchedParams = {"aspect_ratios"}
    /\ DifferingLevels # {}
    /\ RaisedLengthError
    /\ ~anchor_generators.built

\* AnchorGenerator.__call__ has run on the image in call
CallDone == pc = "done" /\ call.op = "AnchorGenerator.__call__"

\* the generators and the output have the same level keys, one entry each
OneEntryPerLevel ==
    (CallDone /\ ret.kind = "value")
        => /\ ret.value.keys = anchor_generators.keys
           /\ DOMAIN ret.value.items = DOMAIN anchor_generators.keys
           /\ \A i, j \in DOMAIN ret.value.keys :
                 ret.value.keys[i] = ret.value.keys[j] => i = j

\* a flat list of scales names the levels level_0, level_1, ... in input
\* order, and a mapping names them by its keys
LevelsNamedByScales ==
    (InitDone /\ ret.kind = "ok")
        => /\ anchor_generators.built
           /\ Len(anchor_generators.keys) = Len(call.scales.items)
           /\ call.scales.kind = "dict" => anchor_generators.keys = call.scales.keys
           /\ call.scales.kind = "list" =>
                 /\ Len(anchor_generators.keys) >= 1
                        => anchor_generators.keys[1] = "level_0"
                 /\ Len(anchor_generators.keys) >= 2
                        => anchor_generators.keys[2] = "level_1"
                 /\ Len(anchor_generators.keys) >= 3
                        => anchor_generators.keys[3] = "level_2"

\* a flat list of sizes, aspect ratios or strides is the value of every
\* level, and a mapping gives every level the list under its key
ListsBroadcastToLevels ==
    (InitDone /\ ret.kind = "ok")
        => \A i \in DOMAIN anchor_generators.keys :
              LET g == anchor_generators.items[i]
                  key == anchor_generators.keys[i]
              IN  /\ g.sizes = ParamAt(call.sizes, key)
                  /\ g.aspect_ratios = ParamAt(call.aspect_ratios, key)
                  /\ g.stride = ParamAt(call.strides, key)
                  /\ g.clip_boxes = call.clip_boxes

NumberOfCenters(stride, side) ==
    Cardinality({i \in 0..side : stride * (1 + 2 * i) < 2 * side})

\* C18: every call on a constructed generator returns, and the anchors of a
\* level number (cells along the height) * (cells along the width) *
\* len(sizes) * len(aspect_ratios), the cells along an axis being the centers
\* stride * (0.5 + i) placed on it.
C18_AnchorCountPerLevel ==
    CallDone
        => /\ ret.kind = "value"
           /\ \A i \in DOMAIN anchor_generators.items :
                 LET g == anchor_generators.items[i]
                 IN  \A k \in DOMAIN g.stride :
                        Len(ret.value.items[i]) =
                            NumberOfCenters(g.stride[k], call.image[1])
                              * NumberOfCenters(g.stride[k], call.image[2])
                              * Len(g.sizes) * Len(g.aspect_ratios)

\* the generators were built from flat lists: at least one level, and the
\* levels are named level_0, level_1, ...
FlatListGenerators ==
    /\ anchor_generators.keys # <<>>
    /\ \A i \in DOMAIN anchor_generators.keys :
          anchor_generators.keys[i] = LevelNames[i]

\* C19: a generator built from flat lists of n strides, n sizes, m scales and
\* r aspect ratios returns, on an image of height H and width W, one level
\* per stride, every anchor has 4 coordinates, and where the strides divide H
\* and W the levels together have the sum over the strides of
\* (H / stride) * (W / stride) * m * r anchors.
C19_OneLevelPerStride ==
    (CallDone /\ FlatListGenerators)
        => LET strides == anchor_generators.items[1].stride
               m == Len(anchor_generators.keys)
               r == Len(anchor_generators.items[1].aspect_ratios)
               H == call.image[1]
               W == call.image[2]
           IN  /\ ret.kind = "value"
               /\ Len(ret.value.keys) = Len(strides)
               /\ \A i \in DOMAIN ret.value.items :
                     \A a \in DOMAIN ret.value.items[i] :
                        Len(ret.value.items[i][a]) = 4
               /\ (\A k \in DOMAIN strides :
                        H % strides[k] = 0 /\ W % strides[k] = 0)
                     => SumSeq([i \in DOMAIN ret.value.items |->
                                    Len(ret.value.items[i])])
                          = SumSeq([k \in DOMAIN strides |->
                                      (H \div strides[k]) * (W \div strides[k])
                                        * m * r])

\* the anchors of every level of a returned output, as <<level, anchor>>
ReturnedAnchors ==
    UNION {{<<i, a>> : a \in DOMAIN ret.value.items[i]} :
              i \in DOMAIN ret.value.items}

\* C20: the anchors [y_min, x_min, y_max, x_max] of a generator with
\* clip_boxes = True have y_min and y_max within [0, image height] and x_min
\* and x_max within [0, image width]; those of a generator with clip_boxes =
\* False are left as computed: as high and as wide as size * scale /
\* sqrt(ratio) and size * scale * sqrt(ratio), around a center inside the
\* image.
C20_ClipBoxesKeepsAnchorsInImage ==
    (CallDone /\ ret.kind = "value")
        => \A p \in ReturnedAnchors :
              LET g == anchor_generators.items[p[1]]
                  box == ret.value.items[p[1]][p[2]]
                  H == Unit * call.image[1]
                  W == Unit * call.image[2]
                  ratio == g.aspect_ratios[((p[2] - 1) % Len(g.aspect_ratios)) + 1]
              IN  IF g.clip_boxes
                  THEN /\ 0 <= box[1] /\ box[1] <= H
                       /\ 0 <= box[3] /\ box[3] <= H
                       /\ 0 <= box[2] /\ box[2] <= W
                       /\ 0 <= box[4] /\ box[4] <= W
                  ELSE /\ box[3] - box[1] =
                            2 * half_anchor_height(g.sizes[1], g.scale, ratio)
                       /\ box[4] - box[2] =
                            2 * half_anchor_width(g.sizes[1], g.scale, ratio)
                       /\ 0 < box[1] + box[3] /\ box[1] + box[3] < 2 * H
                       /\ 0 < box[2] + box[4] /\ box[2] + box[4] < 2 * W

\* C20, witness: on an image wider than high a generator with clip_boxes =
\* True returned an anchor cut at the top, at the bottom and on the left,
\* and not on the right.
C20_Witness ==
    /\ CallDone
    /\ ret.kind = "value"
    /\ call.image[1] < call.image[2]
    /\ \E p \in ReturnedAnchors :
          LET box == ret.value.items[p[1]][p[2]]
          IN  /\ anchor_generators.items[p[1]].clip_boxes
              /\ box[1] = 0
              /\ box[3] = Unit * call.image[1]
              /\ box[2] = 0
              /\ box[4] < Unit * call.image[2]
              /\ box[4] > Unit * call.image[1]

\* C20, second witness: a generator with clip_boxes = False returned an
\* anchor that begins above the image and ends below it.
C20_WitnessUnclipped ==
    /\ CallDone
    /\ ret.kind = "value"
    /\ \E p \in ReturnedAnchors :
          LET box == ret.value.items[p[1]][p[2]]
          IN  /\ ~anchor_generators.items[p[1]].clip_boxes
              /\ box[1] < 0
              /\ box[3] > Unit * call.image[1]

\* the lists that an argument holds: the list itself, or the values of the
\* mapping
ListsOf(param) ==
    IF param.kind = "list" THEN {param.items}
    ELSE {param.items[i] : i \in DOMAIN param.items}

NonPositiveStride ==
    \E l \in ListsOf(call.strides) : \E k \in DOMAIN l : l[k] <= 0

EmptyParameterList ==
    \/ call.scales.items = <<>>
    \/ <<>> \in ListsOf(call.sizes)
    \/ <<>> \in ListsOf(call.strides)
    \/ <<>> \in ListsOf(call.aspect_ratios)

\* C21: a construction with a non-positive stride, an empty parameter list
\* or a mapping with other keys than scales raises and builds no generator,
\* and a call on a constructed generator never fails.
C21_BadConfigurationsFailAtConstruction ==
    /\ (InitDone /\ (NonPositiveStride \/ EmptyParameterList \/ MismatchedParams # {}))
          => (ret.kind = "raise" /\ ~anchor_generators.built)
    /\ CallDone => ret.kind = "value"

\* the anchor of index a, counted from 0, of the cell at (row, col), counted
\* from 0, of a level with one size: its center is at stride * (0.5 + row)
\* and stride * (0.5 + col), its half height and half width are those of the
\* aspect ratio of index a
AnchorAt(g, row, col, a) ==
    LET cy == (Unit * g.stride[1] * (1 + 2 * row)) \div 2
        cx == (Unit * g.stride[1] * (1 + 2 * col)) \div 2
        hh == half_anchor_height(g.sizes[1], g.scale, g.aspect_ratios[a + 1])
        hw == half_anchor_width(g.sizes[1], g.scale, g.aspect_ratios[a + 1])
    IN  <<cy - hh, cx - hw, cy + hh, cx + hw>>

\* C26: the anchors of a level are in row-major order over the grid of
\* centers and, within a cell, in the order of the aspect ratios: the anchor
\* at flat index ((row * n_cols) + col) * K + a, counted from 0, is the anchor
\* of index a of the cell at (row, col), clipped to the image when clip_boxes
\* is set; what a call returns depends on the generators and the image size
\* only.
C26_AnchorsInRowMajorOrder ==
    (CallDone /\ ret.kind = "value")
        => \A i \in DOMAIN anchor_generators.items :
              LET g == anchor_generators.items[i]
                  n_rows == NumberOfCenters(g.stride[1], call.image[1])
                  n_cols == NumberOfCenters(g.stride[1], call.image[2])
                  K == Len(g.aspect_ratios)
                  H == Unit * call.image[1]
                  W == Unit * call.image[2]
              IN  /\ Len(ret.value.items[i]) = n_rows * n_cols * K
                  /\ \A row \in 0..(n_rows - 1) :
                        \A col \in 0..(n_cols - 1) :
                           \A a \in 0..(K - 1) :
                              LET box == ret.value.items[i][((row * n_cols) + col) * K + a + 1]
                                  raw == AnchorAt(g, row, col, a)
                              IN  IF g.clip_boxes
                                  THEN box = <<Max(Min(raw[1], H), 0), Max(Min(raw[2], W), 0),
                                               Max(Min(raw[3], H), 0), Max(Min(raw[4], W), 0)>>
                                  ELSE box = raw

\* C26, witness: a level with two rows and two columns of centers and two
\* aspect ratios; the anchor of the second column of the first row differs
\* from the anchor of the first column of the second row.
C26_Witness ==
    /\ CallDone
    /\ ret.kind = "value"
    /\ \E i \in DOMAIN anchor_generators.items :
          LET g == anchor_generators.items[i]
          IN  /\ NumberOfCenters(g.stride[1], call.image[1]) = 2
              /\ NumberOfCenters(g.stride[1], call.image[2]) = 2
              /\ Len(g.aspect_ratios) = 2
              /\ Len(ret.value.items[i]) = 8
              /\ ret.value.items[i][3] # ret.value.items[i][5]
              /\ ret.value.items[i][1] # ret.value.items[i][2]

(***************************************************************************)
(* The delta codec (keras_cv/bounding_box/delta_encoding.py):              *)
(* encode_box_to_deltas and decode_deltas_to_boxes.  Both are functions of *)
(* their arguments; they keep no state.  A variance is a record [kind,     *)
(* shape]: kind "none" for None, "list" for a Python list of len shape[1], *)
(* "tensor" for a tensor of that shape.  Anchors, boxes and deltas are a   *)
(* tensor, [kind |-> "tensor", boxes |-> its rows], or a dict of tensors.  *)
(***************************************************************************)
\* largest length of a variance
MaxVarianceLength == 5

NoVariance == [kind |-> "none", shape |-> <<>>]

Variances ==
    {NoVariance, [kind |-> "tensor", shape |-> <<>>]}
      \cup {[kind |-> "list", shape |-> <<n>>] : n \in 0..MaxVarianceLength}
      \cup {[kind |-> "tensor", shape |-> <<n>>] : n \in 0..MaxVarianceLength}
      \cup {[kind |-> "tensor", shape |-> <<2, n>>] : n \in 0..MaxVarianceLength}

Tensor(boxes) == [kind |-> "tensor", boxes |-> boxes]

Tensors == {Tensor(<<BoxA>>), Tensor(<<BoxA, BoxH>>)}

\* a tensor, or a dict of tensors over the level names "l1" and "l2"
Structures ==
    Tensors
      \cup {Dict(<<"l1">>, <<t>>) : t \in Tensors}
      \cup {Dict(<<"l2">>, <<t>>) : t \in Tensors}
      \cup {Dict(<<"l1", "l2">>, <<t, t>>) : t \in Tensors}
      \cup {Dict(<<"l2", "l1">>, <<t, t>>) : t \in Tensors}

\* lines 30..36 and 72..78: the check of the variance
variance_check(variance) ==
    IF variance.kind = "none" THEN NoRet
    ELSE IF variance.kind = "tensor" /\ variance.shape = <<>>
    THEN [NoRet EXCEPT !.kind = "raise", !.error = "IndexError"]
    ELSE IF variance.shape[Len(variance.shape)] # 4
    THEN Raise("ValueError", "variance must be length 4", "variance")
    ELSE NoRet

\* tf.nest.assert_same_structure for tensors and dicts of tensors
same_structure(nest1, nest2) ==
    IF nest1.kind = "dict" /\ nest2.kind = "dict"
    THEN KeySet(nest1) = KeySet(nest2)
    ELSE nest1.kind = nest2.kind

\* the name convert_format, which the module neither defines nor imports
convert_format == Raise("NameError", "name is not defined", "convert_format")

\* encode_box_to_deltas
encode_box_to_deltas_result(anchors, boxes, variance) ==
    IF variance_check(variance).kind = "raise" THEN variance_check(variance)
    ELSE convert_format

\* decode_deltas_to_boxes
decode_deltas_to_boxes_result(anchors, boxes_delta, variance) ==
    IF variance_check(variance).kind = "raise" THEN variance_check(variance)
    ELSE IF ~same_structure(anchors, boxes_delta)
    THEN Raise("ValueError", "assert_same_structure", "")
    ELSE convert_format

CallEncode ==
    /\ pc = "idle"
    /\ pc' = "called"
    /\ \E a \in Tensors, b \in Tensors, v \in Variances :
          call' = [op |-> "encode_box_to_deltas", anchors |-> a, boxes |-> b,
                   variance |-> v]
    /\ UNCHANGED <<delta_sum, samples, threads, anchor_generators, cfg, true_positives, ground_truth_boxes, ret>>

CallDecode ==
    /\ pc = "idle"
    /\ pc' = "called"
    /\ \E a \in Structures, d \in Structures, v \in Variances :
          call' = [op |-> "decode_deltas_to_boxes", anchors |-> a,
                   boxes_delta |-> d, variance |-> v]
    /\ UNCHANGED <<delta_sum, samples, threads, anchor_generators, cfg, true_positives, ground_truth_boxes, ret>>

encode_box_to_deltas ==
    /\ pc = "called"
    /\ call.op = "encode_box_to_deltas"
    /\ pc' = "done"
    /\ ret' = encode_box_to_deltas_result(call.anchors, call.boxes, call.variance)
    /\ UNCHANGED <<delta_sum, samples, threads, anchor_generators, cfg, true_positives, ground_truth_boxes, call>>

decode_deltas_to_boxes ==
    /\ pc = "called"
    /\ call.op = "decode_deltas_to_boxes"
    /\ pc' = "done"
    /\ ret' = decode_deltas_to_boxes_result(call.anchors, call.boxes_delta,
                                            call.variance)
    /\ UNCHANGED <<delta_sum, samples, threads, anchor_generators, cfg, true_positives, ground_truth_boxes, call>>

InitCodec ==
    /\ cfg = NoConfig
    /\ true_positives = NotCreated
    /\ ground_truth_boxes = NotCreated
    /\ anchor_generators = NoAnchorGenerators
    /\ delta_sum = NoMeanBoxCountDelta
    /\ samples = NoMeanBoxCountDelta
    /\ threads = NoThreads
    /\ pc = "idle"
    /\ call = NoCall
    /\ ret = NoRet

NextCodec ==
    \/ CallEncode
    \/ CallDecode
    \/ encode_box_to_deltas
    \/ decode_deltas_to_boxes
    \/ Return

SpecCodec == InitCodec /\ [][NextCodec]_vars

EncodeDone == pc = "done" /\ call.op = "encode_box_to_deltas"
DecodeDone == pc = "done" /\ call.op = "decode_deltas_to_boxes"

\* the variance is None or has a last dimension of 4
VarianceAccepted ==
    \/ call.variance.kind = "none"
    \/ /\ call.variance.shape # <<>>
       /\ call.variance.shape[Len(call.variance.shape)] = 4

\* C22, as far as the round trip goes: with no variance or a variance of
\* length 4, encode_box_to_deltas returns deltas, and decode_deltas_to_boxes,
\* on anchors and deltas of the same structure, returns boxes; the law is
\* about these two values.
C22_RoundTripReturnsBoxes ==
    /\ (EncodeDone /\ VarianceAccepted) => ret.kind = "value"
    /\ (DecodeDone /\ VarianceAccepted
            /\ same_structure(call.anchors, call.boxes_delta))
          => ret.kind = "value"

\* the variance has a length, or a last dimension, other than 4
VarianceOfOtherLength ==
    /\ call.variance.kind # "none"
    /\ call.variance.shape # <<>>
    /\ call.variance.shape[Len(call.variance.shape)] # 4

\* C23: encode_box_to_deltas and decode_deltas_to_boxes raise a ValueError
\* about the variance when its length is not 4, whatever the other arguments
\* are, and with no variance or a variance of length 4 they go on to return a
\* result (decode_deltas_to_boxes: on anchors and deltas of the same
\* structure).
C23_VarianceOfLengthFourOrNone ==
    /\ ((EncodeDone \/ DecodeDone) /\ VarianceOfOtherLength)
          => /\ ret.kind = "raise"
             /\ ret.error = "ValueError"
             /\ ret.value[2] = "variance"
    /\ (EncodeDone /\ VarianceAccepted) => ret.kind = "value"
    /\ (DecodeDone /\ VarianceAccepted
            /\ same_structure(call.anchors, call.boxes_delta))
          => ret.kind = "value"

\* C23, the part about the rejection alone, which the code satisfies
C23_OtherLengthsRejected ==
    ((EncodeDone \/ DecodeDone) /\ VarianceOfOtherLength)
        => /\ ret.kind = "raise"
           /\ ret.error = "ValueError"
           /\ ret.value[2] = "variance"

\* C24: on anchors and deltas that are both dicts with the same keys,
\* decode_deltas_to_boxes returns a dict with the keys of the anchors; on
\* dicts with different keys, or a dict and a tensor, it raises the error of
\* assert_same_structure and returns nothing.
C24_DecodeLevelByLevel ==
    (DecodeDone /\ VarianceAccepted
        /\ (call.anchors.kind = "dict" \/ call.boxes_delta.kind = "dict"))
        => IF /\ call.anchors.kind = "dict"
              /\ call.boxes_delta.kind = "dict"
              /\ KeySet(call.anchors) = KeySet(call.boxes_delta)
           THEN /\ ret.kind = "value"
                /\ ret.value.keys = call.anchors.keys
           ELSE /\ ret.kind = "raise"
                /\ ret.value[1] = "assert_same_structure"

\* C24, the part about mismatching structures alone, which the code satisfies
C24_MismatchRejected ==
    (DecodeDone /\ VarianceAccepted
        /\ ~(\/ call.anchors.kind = "tensor" /\ call.boxes_delta.kind = "tensor"
             \/ /\ call.anchors.kind = "dict"
                /\ call.boxes_delta.kind = "dict"
                /\ KeySet(call.anchors) = KeySet(call.boxes_delta)))
        => /\ ret.kind = "raise"
           /\ ret.value[1] = "assert_same_structure"

(***************************************************************************)
(* MeanBoxCountDelta (keras_cv/metrics/object_detection/                   *)
(* mean_box_count_delta.py).  The metric owns the two scalars delta_sum    *)
(* and samples.  An image of a batch is [true |-> the classes of y_true,   *)
(* pred |-> the classes of y_pred]; the inputs are dense, the entries      *)
(* after the boxes of an image being padded with the class -1.             *)
(***************************************************************************)
\* largest number of entries of y_true, and of y_pred, of one image
MaxEntries == 3
\* largest number of images that the caller passes between two resets
MaxSamples == 3

\* the classes of an image with n entries: valid classes (0, then 1), then
\* padding
ClassLists(n) ==
    {[i \in 1..n |-> IF i <= k THEN (IF i = 1 THEN 0 ELSE 1) ELSE 0 - 1] : k \in 0..n}

\* the batches of b images with nt entries of y_true and np of y_pred each
ClassBatches(b, nt, np) ==
    [1..b -> {[true |-> t, pred |-> q] : t \in ClassLists(nt), q \in ClassLists(np)}]

AllClassBatches ==
    UNION {ClassBatches(s[1], s[2], s[3]) :
              s \in (0..MaxImages) \X (0..MaxEntries) \X (0..MaxEntries)}

\* tf.math.reduce_sum(tf.cast(classes != -1, tf.int32), axis=-1)
valid_boxes(classes) ==
    SumSeq([i \in DOMAIN classes |-> IF classes[i] # 0 - 1 THEN 1 ELSE 0])

\* the difference of the two counts of an image without tf.math.abs
box_count_difference(image) == valid_boxes(image.true) - valid_boxes(image.pred)

\* tf.math.abs(ground_truth_boxes - predicted_boxes) of one image
box_count_delta(image) ==
    IF valid_boxes(image.true) >= valid_boxes(image.pred)
    THEN valid_boxes(image.true) - valid_boxes(image.pred)
    ELSE valid_boxes(image.pred) - valid_boxes(image.true)

\* self.delta_sum / self.samples
mean_box_count_delta_value(sum, n) == IF n = 0 THEN NaN ELSE Rat(sum, n)

CallDeltaUpdate ==
    /\ pc = "idle"
    /\ pc' = "called"
    /\ \E batch \in AllClassBatches :
          /\ samples + Len(batch) <= MaxSamples
          /\ call' = [op |-> "MeanBoxCountDelta.update_state", batch |-> batch]
    /\ UNCHANGED <<delta_sum, samples, threads, anchor_generators, cfg, true_positives,
                   ground_truth_boxes, ret>>

CallDeltaReset ==
    /\ pc = "idle"
    /\ pc' = "called"
    /\ call' = [op |-> "MeanBoxCountDelta.reset_state", batch |-> <<>>]
    /\ UNCHANGED <<delta_sum, samples, threads, anchor_generators, cfg, true_positives,
                   ground_truth_boxes, ret>>

CallDeltaResult ==
    /\ pc = "idle"
    /\ pc' = "called"
    /\ call' = [op |-> "MeanBoxCountDelta.result", batch |-> <<>>]
    /\ UNCHANGED <<delta_sum, samples, threads, anchor_generators, cfg, true_positives,
                   ground_truth_boxes, ret>>

\* MeanBoxCountDelta.update_state
MeanBoxCountDelta_update_state ==
    /\ pc = "called"
    /\ call.op = "MeanBoxCountDelta.update_state"
    /\ pc' = "done"
    /\ delta_sum' = delta_sum
                      + SumSeq([i \in DOMAIN call.batch |-> box_count_delta(call.batch[i])])
    /\ samples' = samples + Len(call.batch)
    /\ ret' = [NoRet EXCEPT !.kind = "ok"]
    /\ UNCHANGED <<threads, anchor_generators, cfg, true_positives, ground_truth_boxes,
                   call>>

\* MeanBoxCountDelta.reset_state
MeanBoxCountDelta_reset_state ==
    /\ pc = "called"
    /\ call.op = "MeanBoxCountDelta.reset_state"
    /\ pc' = "done"
    /\ delta_sum' = 0
    /\ samples' = 0
    /\ ret' = [NoRet EXCEPT !.kind = "ok"]
    /\ UNCHANGED <<threads, anchor_generators, cfg, true_positives, ground_truth_boxes,
                   call>>

\* MeanBoxCountDelta.result
MeanBoxCountDelta_result ==
    /\ pc = "called"
    /\ call.op = "MeanBoxCountDelta.result"
    /\ pc' = "done"
    /\ ret' = [NoRet EXCEPT !.kind = "value",
                            !.value = mean_box_count_delta_value(delta_sum, samples)]
    /\ UNCHANGED <<delta_sum, samples, threads, anchor_generators, cfg, true_positives,
                   ground_truth_boxes, call>>

\* the state after MeanBoxCountDelta.__init__
InitDelta ==
    /\ cfg = NoConfig
    /\ true_positives = NotCreated
    /\ ground_truth_boxes = NotCreated
    /\ anchor_generators = NoAnchorGenerators
    /\ delta_sum = 0
    /\ samples = 0
    /\ threads = NoThreads
    /\ pc = "idle"
    /\ call = NoCall
    /\ ret = NoRet

NextDelta ==
    \/ CallDeltaUpdate
    \/ CallDeltaReset
    \/ CallDeltaResult
    \/ MeanBoxCountDelta_update_state
    \/ MeanBoxCountDelta_reset_state
    \/ MeanBoxCountDelta_result
    \/ Return

SpecDelta == InitDelta /\ [][NextDelta]_vars

DeltaUpdate == pc = "called" /\ call.op = "MeanBoxCountDelta.update_state"
DeltaReset == pc = "called" /\ call.op = "MeanBoxCountDelta.reset_state"
DeltaResult == pc = "called" /\ call.op = "MeanBoxCountDelta.result"

\* the number of entries of a list of classes that are not -1
NumberOfValid(classes) == Cardinality({i \in DOMAIN classes : classes[i] # 0 - 1})

\* | number of valid y_true entries - number of valid y_pred entries |
AbsoluteCountDifference(image) ==
    LET d == NumberOfValid(image.true) - NumberOfValid(image.pred)
    IN  IF d < 0 THEN 0 - d ELSE d

\* the image of the example: one valid true box and three valid predicted
\* boxes
ExampleImage == [true |-> <<0, 0 - 1, 0 - 1>>, pred |-> <<0, 1, 1>>]

\* C25: delta_sum is the sum, over the images seen since the last reset, of
\* | valid y_true entries - valid y_pred entries |, and samples their number:
\* both are 0 after construction and after a reset, and an update adds the
\* sum over its images and the number of its images; result() with at least
\* one image seen is delta_sum / samples.  One update with the image of the
\* example on a fresh metric is followed by a result of 2.
C25_ResultIsMeanAbsoluteCountDifference ==
    [][/\ DeltaUpdate
          => /\ delta_sum' = delta_sum
                   + SumSeq([i \in DOMAIN call.batch |->
                               AbsoluteCountDifference(call.batch[i])])
             /\ samples' = samples + Len(call.batch)
       /\ DeltaReset => (delta_sum' = 0 /\ samples' = 0)
       /\ (DeltaResult /\ samples > 0)
          => /\ ret'.kind = "value"
             /\ ret'.value[2] > 0
             /\ ret'.value[1] * samples = ret'.value[2] * delta_sum
             /\ UNCHANGED <<delta_sum, samples>>
       /\ (DeltaUpdate /\ samples = 0 /\ delta_sum = 0 /\ call.batch = <<ExampleImage>>)
          => (delta_sum' = 2 /\ samples' = 1)
       /\ (DeltaResult /\ samples = 1 /\ delta_sum = 2) => ret'.value = <<2, 1>>
       /\ (pc = "idle" \/ pc = "done") => UNCHANGED <<delta_sum, samples>>]_vars

\* C25, witness: result() has returned 3/2 after two images were seen whose
\* absolute count differences add up to 3.
C25_Witness ==
    /\ pc = "done"
    /\ call.op = "MeanBoxCountDelta.result"
    /\ samples = 2
    /\ delta_sum = 3
    /\ ret.value = <<3, 2>>

(***************************************************************************)
(* Invariants of the recall counters.                                      *)
(***************************************************************************)
\* the rational v lies in [0, 1]
InUnitInterval(v) == v[2] > 0 /\ 0 <= v[1] /\ v[1] <= v[2]

ResultDone == pc = "done" /\ call.op = "result"

\* C27: in every state reached by completed update_state and reset_state
\* calls, true_positives[t][k] <= ground_truth_boxes[k] for every threshold t
\* and category k, and every value result() returns lies in [0, 1].
C27_TruePositivesAtMostGroundTruth ==
    /\ \A t \in DOMAIN true_positives :
           \A k \in DOMAIN true_positives[t] :
               true_positives[t][k] <= ground_truth_boxes[k]
    /\ ResultDone => InUnitInterval(ret.value)
    /\ InUnitInterval(result_value(true_positives, ground_truth_boxes))

\* C27, witness: result() has returned a value strictly between 0 and 1 from
\* counters of which one cell equals its ground-truth count and another is
\* below it.
C27_Witness ==
    /\ ResultDone
    /\ ret.value[1] > 0
    /\ ret.value[1] < ret.value[2]
    /\ \E t \in DOMAIN true_positives :
           \E k \in DOMAIN true_positives[t] :
               true_positives[t][k] = ground_truth_boxes[k] /\ ground_truth_boxes[k] > 0
    /\ \E t \in DOMAIN true_positives :
           \E k \in DOMAIN true_positives[t] :
               true_positives[t][k] < ground_truth_boxes[k]

\* the ground-truth rows that the result r of the matcher has given away
MatchedRows(r) == {r[d] : d \in DOMAIN r} \ {0 - 1}

\* the result of the matcher on the matrix of the call at threshold t
MatchAt(t) == match_boxes(call.ious, t, call.num_gt, call.num_det)

\* C28: the ground truths matched by the greedy matcher shrink as the
\* threshold grows: for the matrix of the call and thresholds t1 <= t2, of
\* which one is the threshold of the call, the rows matched at t2 are among
\* the rows matched at t1, so the number of matched detections at t2 is at
\* most that at t1.
C28_MatchedRowsShrinkWithThreshold ==
    MatchDone
      => \A t1, t2 \in MatchThresholds :
             (t1 <= t2 /\ call.threshold \in {t1, t2})
               => LET low  == IF call.threshold = t1 THEN ret.value ELSE MatchAt(t1)
                      high == IF call.threshold = t2 THEN ret.value ELSE MatchAt(t2)
                  IN  /\ MatchedRows(high) \subseteq MatchedRows(low)
                      /\ Cardinality(MatchedRows(high)) <= Cardinality(MatchedRows(low))
                      /\ Cardinality({d \in DOMAIN high : high[d] # 0 - 1})
                             <= Cardinality({d \in DOMAIN low : low[d] # 0 - 1})

\* C28, witness: the matcher has returned, at the higher threshold, a proper
\* subset of the rows it gives away at the lower threshold, through a
\* different assignment: a row matched at both thresholds goes to another
\* detection.
C28_Witness ==
    /\ MatchDone
    /\ call.threshold = 90
    /\ MatchedRows(ret.value) # {}
    /\ MatchedRows(ret.value) # MatchedRows(MatchAt(50))
    /\ \E d \in DOMAIN ret.value :
           /\ ret.value[d] # 0 - 1
           /\ MatchAt(50)[d] # ret.value[d]

\* the cells of true_positives are ordered as their thresholds are: in every
\* reachable state of the metric true_positives[i][k] >= true_positives[j][k]
\* whenever iou_thresholds[i] <= iou_thresholds[j]
TruePositivesShrinkWithThreshold ==
    \A i, j \in DOMAIN true_positives :
        cfg.iou_thresholds[i] <= cfg.iou_thresholds[j]
          => \A k \in DOMAIN true_positives[i] :
                 true_positives[i][k] >= true_positives[j][k]

\* a cell of the lower threshold is strictly above the cell of the higher one
TruePositivesDifferByThreshold ==
    \E i, j \in DOMAIN true_positives :
        /\ cfg.iou_thresholds[i] < cfg.iou_thresholds[j]
        /\ \E k \in DOMAIN true_positives[i] : true_positives[i][k] > true_positives[j][k]

(***************************************************************************)
(* The increments of update_state as a function of its inputs.             *)
(***************************************************************************)
\* the update step of a batched call is about to run
UpdateCalled == pc = "called" /\ BatchedUpdate

\* cell-wise sums of two values of true_positives and of ground_truth_boxes
AddTruePositives(a, b) == [t \in DOMAIN a |-> [k \in DOMAIN a[t] |-> a[t][k] + b[t][k]]]
AddGroundTruthBoxes(a, b) == [k \in DOMAIN a |-> a[k] + b[k]]

\* what a fresh metric of configuration c holds after one update with batch
FreshTruePositives(c, batch) ==
    AddTruePositives(zeros_true_positives(c), true_positives_update(c, batch))
FreshGroundTruthBoxes(c, batch) ==
    AddGroundTruthBoxes(zeros_ground_truth_boxes(c), ground_truth_boxes_update(c, batch))

RECURSIVE SumOfImages(_, _, _)
\* the counters of a fresh metric after one update per image of the batch,
\* from image i on
SumOfImages(c, batch, i) ==
    IF i > Len(batch)
    THEN [tp |-> zeros_true_positives(c), gtb |-> zeros_ground_truth_boxes(c)]
    ELSE LET rest == SumOfImages(c, batch, i + 1)
         IN  [tp  |-> AddTruePositives(FreshTruePositives(c, <<batch[i]>>), rest.tp),
              gtb |-> AddGroundTruthBoxes(FreshGroundTruthBoxes(c, <<batch[i]>>), rest.gtb)]

\* the orders of the index set S: the one-to-one maps of S onto itself
Orders(S) == {p \in [S -> S] : \A x, y \in S : x # y => p[x] # p[y]}

\* the batch with its images in the order p
Reordered(batch, p) == [i \in DOMAIN batch |-> batch[p[i]]]

\* the configuration c with its class_ids in the order p
WithClassOrder(c, p) ==
    [c EXCEPT !.class_ids = [k \in DOMAIN c.class_ids |-> c.class_ids[p[k]]]]

\* C29: what a batched update_state adds to the counters depends on its
\* inputs only: it is what the same call leaves in a fresh metric, whatever
\* the counters hold, so updates commute; it is the sum of what single-image
\* updates add for the images of the batch, so the order of the images and
\* the split of the batch into successive calls do not matter; and the cell
\* of a class id does not depend on the position of the id in class_ids.
\* The increments of a call are compared with those of the reordered and of
\* the split calls where the call is made on zero counters, which every
\* batch can be.
C29_IncrementDependsOnInputsOnly ==
    [][UpdateCalled
         => LET b   == call.batch
                tp  == FreshTruePositives(cfg, b)
                gtb == FreshGroundTruthBoxes(cfg, b)
            IN  /\ true_positives' = AddTruePositives(true_positives, tp)
                /\ ground_truth_boxes' = AddGroundTruthBoxes(ground_truth_boxes, gtb)
                /\ ZeroCounters
                     => /\ tp = SumOfImages(cfg, b, 1).tp
                        /\ gtb = SumOfImages(cfg, b, 1).gtb
                        /\ \A p \in Orders(DOMAIN b) :
                               /\ FreshTruePositives(cfg, Reordered(b, p)) = tp
                               /\ FreshGroundTruthBoxes(cfg, Reordered(b, p)) = gtb
                        /\ \A s \in 0..Len(b) :
                               /\ AddTruePositives(
                                      FreshTruePositives(cfg, SubSeq(b, 1, s)),
                                      FreshTruePositives(cfg, SubSeq(b, s + 1, Len(b))))
                                      = tp
                               /\ AddGroundTruthBoxes(
                                      FreshGroundTruthBoxes(cfg, SubSeq(b, 1, s)),
                                      FreshGroundTruthBoxes(cfg, SubSeq(b, s + 1, Len(b))))
                                      = gtb
                        /\ \A p \in Orders(DOMAIN cfg.class_ids) :
                               /\ FreshTruePositives(WithClassOrder(cfg, p), b)
                                      = [t \in DOMAIN tp |->
                                            [k \in DOMAIN tp[t] |-> tp[t][p[k]]]]
                               /\ FreshGroundTruthBoxes(WithClassOrder(cfg, p), b)
                                      = [k \in DOMAIN gtb |-> gtb[p[k]]]]_vars

\* C29, witness: an update with two different images, of which only one adds
\* a true positive, has completed on a metric whose counters were not zero.
C29_Witness ==
    /\ pc = "done"
    /\ BatchedUpdate
    /\ Len(call.batch) = 2
    /\ \E t \in DOMAIN true_positives :
           \E k \in DOMAIN true_positives[t] :
               /\ FreshTruePositives(cfg, <<call.batch[1]>>)[t][k]
                      # FreshTruePositives(cfg, <<call.batch[2]>>)[t][k]
               /\ true_positives[t][k] > FreshTruePositives(cfg, call.batch)[t][k]
               /\ FreshTruePositives(cfg, call.batch)[t][k] > 0

(***************************************************************************)
(* Calls of several threads on one _BoxRecall instance.  update_state,     *)
(* reset_state and result take no lock: each runs as the sequence of its   *)
(* reads and writes of the two variables, and the steps of different       *)
(* threads interleave.  Each assign, assign_add and read of one variable   *)
(* is one step.                                                            *)
(***************************************************************************)
\* the threads that call update_state, and the thread that calls result or
\* reset_state
Updaters == {"a", "b"}
Other == "c"
ThreadIds == Updaters \cup {Other}

\* the batches the threads pass: one image with one ground-truth entry and one
\* prediction
ThreadBatches == DenseBatches(1, 1, 1)

\* a thread outside any call; in a call, op is the method, at the position in
\* it, batch the argument of update_state; n_present is what result has
\* computed from its first read of ground_truth_boxes, seen what it has read
\* from true_positives, value what it returns; between holds the updaters
\* that stand between their two assign_add steps since reset_state began
IdleThread ==
    [op |-> "none", at |-> "idle", batch |-> <<>>, n_present |-> 0, seen |-> <<>>,
     value |-> <<0, 1>>, between |-> {}]

\* self.true_positives.assign_add(true_positives_update) that assigns the
\* update
true_positives_assign(value, update) == update

\* self.true_positives.assign_add(true_positives_update)
true_positives_assign_add(value, update) ==
    [t \in DOMAIN value |-> [k \in DOMAIN value[t] |-> value[t][k] + update[t][k]]]

\* self.ground_truth_boxes.assign_add(ground_truth_boxes_update)
ground_truth_boxes_assign_add(value, update) ==
    [k \in DOMAIN value |-> value[k] + update[k]]

\* result from what its three reads have returned: n is the number of present
\* categories of the first read of ground_truth_boxes, tp the value read from
\* true_positives and gtb the second read of ground_truth_boxes
result_of_reads(n, tp, gtb) ==
    reduce_mean([t \in DOMAIN tp |->
                    RDivInt(RSumSeq([k \in DOMAIN gtb |-> divide_no_nan(tp[t][k], gtb[k])]),
                            n)])

\* the state after _BoxRecall.__init__, no thread in a call
InitThreads ==
    /\ cfg \in Configs
    /\ anchor_generators = NoAnchorGenerators
    /\ delta_sum = NoMeanBoxCountDelta
    /\ samples = NoMeanBoxCountDelta
    /\ threads = [th \in ThreadIds |-> IdleThread]
    /\ true_positives = zeros_true_positives(cfg)
    /\ ground_truth_boxes = zeros_ground_truth_boxes(cfg)
    /\ pc = "idle"
    /\ call = NoCall
    /\ ret = NoRet

\* a thread calls update_state with a batch; the updates it computes depend on
\* the batch alone
ThreadCallUpdate ==
    /\ \E th \in Updaters, b \in ThreadBatches :
        /\ threads[th].at = "idle"
        /\ threads' = [threads EXCEPT ![th] = [IdleThread EXCEPT !.op = "update",
                                                                !.at = "called",
                                                                !.batch = b]]
    /\ UNCHANGED <<delta_sum, samples, anchor_generators, cfg, true_positives,
                   ground_truth_boxes, pc, call, ret>>

\* update_state: self.true_positives.assign_add(true_positives_update)
ThreadAssignAddTruePositives ==
    /\ \E th \in Updaters :
        /\ threads[th].op = "update"
        /\ threads[th].at = "called"
        /\ true_positives' =
               true_positives_assign_add(true_positives,
                                         true_positives_update(cfg, threads[th].batch))
        /\ threads' = [threads EXCEPT ![th].at = "added_true_positives"]
    /\ UNCHANGED <<delta_sum, samples, anchor_generators, cfg, ground_truth_boxes, pc,
                   call, ret>>

\* update_state: self.ground_truth_boxes.assign_add(ground_truth_boxes_update)
ThreadAssignAddGroundTruthBoxes ==
    /\ \E th \in Updaters :
        /\ threads[th].op = "update"
        /\ threads[th].at = "added_true_positives"
        /\ ground_truth_boxes' =
               ground_truth_boxes_assign_add(
                   ground_truth_boxes, ground_truth_boxes_update(cfg, threads[th].batch))
        /\ threads' = [threads EXCEPT ![th].at = "done"]
    /\ UNCHANGED <<delta_sum, samples, anchor_generators, cfg, true_positives, pc, call,
                   ret>>

\* the updaters that have added to true_positives and not yet to
\* ground_truth_boxes
BetweenAssignAdds == {u \in Updaters : threads[u].at = "added_true_positives"}

\* a thread calls reset_state
ThreadCallReset ==
    /\ threads[Other].at = "idle"
    /\ threads' = [threads EXCEPT ![Other] = [IdleThread EXCEPT !.op = "reset",
                                                               !.at = "called"]]
    /\ UNCHANGED <<delta_sum, samples, anchor_generators, cfg, true_positives,
                   ground_truth_boxes, pc, call, ret>>

\* reset_state: self.true_positives.assign(zeros)
ThreadAssignTruePositives ==
    /\ threads[Other].op = "reset"
    /\ threads[Other].at = "called"
    /\ true_positives' = zeros_true_positives(cfg)
    /\ threads' = [threads EXCEPT ![Other].at = "assigned_true_positives",
                                  ![Other].between = BetweenAssignAdds]
    /\ UNCHANGED <<delta_sum, samples, anchor_generators, cfg, ground_truth_boxes, pc,
                   call, ret>>

\* reset_state: self.ground_truth_boxes.assign(zeros)
ThreadAssignGroundTruthBoxes ==
    /\ threads[Other].op = "reset"
    /\ threads[Other].at = "assigned_true_positives"
    /\ ground_truth_boxes' = zeros_ground_truth_boxes(cfg)
    /\ threads' = [threads EXCEPT ![Other].at = "done",
                                  ![Other].between = @ \cap BetweenAssignAdds]
    /\ UNCHANGED <<delta_sum, samples, anchor_generators, cfg, true_positives, pc, call,
                   ret>>

\* a thread calls result
ThreadCallResult ==
    /\ threads[Other].at = "idle"
    /\ threads' = [threads EXCEPT ![Other] = [IdleThread EXCEPT !.op = "result",
                                                               !.at = "called"]]
    /\ UNCHANGED <<delta_sum, samples, anchor_generators, cfg, true_positives,
                   ground_truth_boxes, pc, call, ret>>

\* result: the first read of ground_truth_boxes, n_present_categories and the
\* early return
ThreadReadPresent ==
    /\ threads[Other].op = "result"
    /\ threads[Other].at = "called"
    /\ threads' =
           [threads EXCEPT
               ![Other].n_present = n_present_categories(ground_truth_boxes),
               ![Other].value = <<0, 1>>,
               ![Other].at = IF n_present_categories(ground_truth_boxes) = 0
                             THEN "done" ELSE "read_present"]
    /\ UNCHANGED <<delta_sum, samples, anchor_generators, cfg, true_positives,
                   ground_truth_boxes, pc, call, ret>>

\* result: the read of true_positives
ThreadReadTruePositives ==
    /\ threads[Other].op = "result"
    /\ threads[Other].at = "read_present"
    /\ threads' = [threads EXCEPT ![Other].seen = true_positives,
                                  ![Other].at = "read_true_positives"]
    /\ UNCHANGED <<delta_sum, samples, anchor_generators, cfg, true_positives,
                   ground_truth_boxes, pc, call, ret>>

\* result: the second read of ground_truth_boxes and the returned value
ThreadReadGroundTruthBoxes ==
    /\ threads[Other].op = "result"
    /\ threads[Other].at = "read_true_positives"
    /\ threads' =
           [threads EXCEPT
               ![Other].value = result_of_reads(threads[Other].n_present,
                                                threads[Other].seen, ground_truth_boxes),
               ![Other].at = "done"]
    /\ UNCHANGED <<delta_sum, samples, anchor_generators, cfg, true_positives,
                   ground_truth_boxes, pc, call, ret>>

NextThreads ==
    \/ ThreadCallUpdate
    \/ ThreadAssignAddTruePositives
    \/ ThreadAssignAddGroundTruthBoxes
    \/ ThreadCallReset
    \/ ThreadAssignTruePositives
    \/ ThreadAssignGroundTruthBoxes
    \/ ThreadCallResult
    \/ ThreadReadPresent
    \/ ThreadReadTruePositives
    \/ ThreadReadGroundTruthBoxes

SpecThreads == InitThreads /\ [][NextThreads]_vars

\* what the updater u has added to true_positives, and to ground_truth_boxes,
\* so far
AddedTruePositives(u) ==
    IF threads[u].at \in {"added_true_positives", "done"}
    THEN true_positives_update(cfg, threads[u].batch)
    ELSE zeros_true_positives(cfg)

AddedGroundTruthBoxes(u) ==
    IF threads[u].at = "done"
    THEN ground_truth_boxes_update(cfg, threads[u].batch)
    ELSE zeros_ground_truth_boxes(cfg)

\* no reset_state has been called
NoReset == threads[Other].op # "reset"

\* the counters hold every increment made so far, and nothing else
NoIncrementLost ==
    /\ true_positives = AddTruePositives(AddedTruePositives("a"), AddedTruePositives("b"))
    /\ ground_truth_boxes
           = AddGroundTruthBoxes(AddedGroundTruthBoxes("a"), AddedGroundTruthBoxes("b"))

\* reset_state has run, from its first assignment to its return, while the
\* updater u stood between its two assign_add steps, and the other updater
\* has written nothing
ResetBetweenAssignAddsOf(u) ==
    /\ threads[Other].op = "reset"
    /\ threads[Other].at = "done"
    /\ u \in threads[Other].between
    /\ \A v \in Updaters \ {u} : threads[v].at \in {"idle", "called"}

ResetBetweenStepsReached ==
    \E u \in Updaters :
        /\ ResetBetweenAssignAddsOf(u)
        /\ threads[u].at = "done"
        /\ true_positives_update(cfg, threads[u].batch) # zeros_true_positives(cfg)
        /\ true_positives = zeros_true_positives(cfg)
        /\ ground_truth_boxes # zeros_ground_truth_boxes(cfg)

\* the update's two steps have fallen between the two assignments of a
\* reset_state: true_positives holds the batch, ground_truth_boxes does not
UpdateBetweenResetStepsReached ==
    \E u \in Updaters :
        /\ threads[Other].op = "reset"
        /\ threads[Other].at = "done"
        /\ threads[u].at = "done"
        /\ \A v \in Updaters \ {u} : threads[v].at = "idle"
        /\ true_positives = true_positives_update(cfg, threads[u].batch)
        /\ true_positives # zeros_true_positives(cfg)
        /\ ground_truth_boxes = zeros_ground_truth_boxes(cfg)
====
